---- MODULE Spec2Model ----
(***************************************************************************)
(* A model of srmilter: the per-connection milter protocol loop            *)
(* (process_client in src/src/daemon.rs), the frame codec it reads with    *)
(* (src/src/reader_extention.rs), the classifier dispatch (classify_mail   *)
(* in src/src/lib.rs) and the connection supervisor with its three         *)
(* execution modes and its signal handlers (daemon, handlerfunc,           *)
(* handlerfunc_child in src/src/daemon.rs).                                *)
(*                                                                         *)
(* A byte is a string: its two hex digits (NUL is "00", U+FFFD is the      *)
(* three bytes "EF", "BF", "BD") or, for a printable ASCII character, TAB, *)
(* CR and LF, the character itself; byte strings and Rust Strings (UTF-8)  *)
(* are sequences of bytes.                                                 *)
(* TLC computes with 32-bit integers, so usize is modelled with UsizeBits  *)
(* bits instead of 64; all arithmetic on it wraps modulo 2^UsizeBits as    *)
(* the 64-bit arithmetic does.                                             *)
(***************************************************************************)
EXTENDS Integers, Sequences, FiniteSets, TLC

VARIABLES
    \* ---- one connection served by process_client ----
    truncate,         \* args.truncate, the cap on mail_buffer (usize)
    overflow_checks,  \* the build: TRUE panics on integer overflow, FALSE wraps
    full_mail_classifier, \* config.full_mail_classifier is Some(..)
    client,           \* position of process_client: "read", "classified", "ok", "err", "panic"
    connect_macros,   \* connect_macros: HashMap<String, String>
    storage,          \* storage: MailInfoStorage
    len,              \* `len` of line 46: length prefix of the frame read last
    cmd,              \* command byte of the frame the loop decoded last
    msg,              \* classify_mail's parse of mail_buffer at the last E: "some", "none"
    result,           \* ClassifyResult returned by classify_mail for the last E
    seen,             \* what classifier.classify was called with while the last frame
                      \* was handled: one MailInfoStorage per call
    reply,            \* what the last loop iteration wrote: a sequence of flushes,
                      \* each the sequence of frames written before that flush
    skips,            \* number of `s` replies written since storage was last reset
    nframes,          \* frames read since storage was last reset
    \* ---- the supervisor (daemon) ----
    fork_mode_enabled, \* config.fork_mode_enabled, the program's opt-in to fork mode
    fork_max,         \* args.fork_max (u16)
    threads_max,      \* args.threads_max (u16)
    FLAG_SHUTDOWN,    \* static AtomicBool
    CHILDREN_CNT,     \* static AtomicU16
    count,            \* the u16 in thread_state's Mutex
    mutex,            \* who holds that Mutex: "free", "sup" or "worker"
    notified,         \* a notify_one reached the supervisor waiting on the Condvar
    sup,              \* position of the supervisor in daemon()
    interrupted,      \* a signal handler ran while the supervisor was blocked in a syscall
    conn,             \* per accepted connection: state of its worker thread / child process
    accepted,         \* number of connections accept() has returned
    sigchld_pending,  \* a SIGCHLD is pending for the supervisor process
    signals,          \* number of SIGTERM/SIGINT delivered so far
    late,             \* connections accept() has returned with FLAG_SHUTDOWN already set
    \* ---- a second connection, served by its own call of process_client ----
    peer,             \* its position, its connect_macros, storage and replies
    \* ---- the write path of process_client, byte by byte ----
    writer,           \* writer: Cursor<Vec<u8>>, the scratch buffer and its position
    wire,             \* the bytes handed to stream_writer so far
    sent,             \* the payloads of the replies written so far
    \* ---- the library functions called on their own ----
    call              \* the last call: function, argument, result

\* what process_client works on (with the shared, read-only Config) and what
\* the supervisor works on
client_vars == <<truncate, overflow_checks, full_mail_classifier, client,
                 connect_macros, storage, len, cmd, msg, result, seen, reply, skips, nframes>>
\* what the specifications of one connection and of the supervisor leave
\* alone: the second connection, the write path in detail and the calls of
\* the library functions
aside == <<peer, writer, wire, sent, call>>
daemon_vars == <<fork_mode_enabled, fork_max, threads_max, FLAG_SHUTDOWN, CHILDREN_CNT, count, mutex,
                 notified, sup, interrupted, conn, accepted, sigchld_pending, signals, late>>
vars == <<truncate, overflow_checks, full_mail_classifier, client,
          connect_macros, storage, len, cmd, msg, result, seen, reply, skips, nframes,
          fork_mode_enabled, fork_max, threads_max, FLAG_SHUTDOWN, CHILDREN_CNT, count, mutex,
          notified, sup, interrupted, conn, accepted, sigchld_pending, signals, late, peer,
          writer, wire, sent, call>>

(***************************************************************************)
(* Bounds of the model.                                                    *)
(***************************************************************************)
MaxBuf == 14        \* longest mail_buffer explored
MaxFrames == 5      \* most frames explored between two resets of storage
MaxRcpt == 2        \* most recipients explored in one envelope
MaxConns == 3       \* most connections accepted by the supervisor
MaxCap == 2         \* largest fork_max / threads_max explored
MaxSignals == 1     \* most SIGTERM/SIGINT deliveries explored
MaxPeerFrames == 3  \* most frames the second connection sends
MaxReplies == 3     \* most replies followed byte by byte on the write path
MaxField == 5       \* longest NUL-terminated field given to read_zstring_anglestripped
MaxFile == 4        \* longest file given to read_array, in bytes

(***************************************************************************)
(* Program constants.                                                      *)
(***************************************************************************)
UsizeBits == 30
UsizeMax == 2^UsizeBits - 1
U16Mod == 65536
MaxFrameLen == 69632
FiniteCap == 8

NUL == "00"
CR == "\r"
LF == "\n"

SMFIF_VERSION == 6
SMFIF_QUARANTINE == 32
SMFIP_NOCONNECT == 1
SMFIP_NOHELO == 2
SMFIP_NOBODY == 16
SMFIP_NR_HDR == 128
SMFIP_NOUNKNOWN == 256
SMFIP_NODATA == 512
SMFIP_SKIP == 1024
SMFIP_NR_CONN == 4096
SMFIP_NR_MAIL == 16384
SMFIP_NR_RCPT == 32768
SMFIP_NR_EOH == 262144
SMFIP_NR_BODY == 524288

(***************************************************************************)
(* Machine arithmetic.                                                     *)
(***************************************************************************)
\* usize subtraction in a build without overflow checks (wrapping)
WrappingSubUsize(a, b) == (a - b) % (2^UsizeBits)

\* AtomicU16::fetch_add / fetch_sub always wrap
WrappingAddU16(a, b) == (a + b) % U16Mod
WrappingSubU16(a, b) == (a - b) % U16Mod

RECURSIVE BitOr(_, _)
BitOr(a, b) ==
    IF a = 0 THEN b
    ELSE IF b = 0 THEN a
    ELSE (IF a % 2 = 1 \/ b % 2 = 1 THEN 1 ELSE 0) + 2 * BitOr(a \div 2, b \div 2)

HexByte(n) ==
    LET HexDigit == <<"0", "1", "2", "3", "4", "5", "6", "7",
                      "8", "9", "A", "B", "C", "D", "E", "F">>
    IN  HexDigit[(n \div 16) + 1] \o HexDigit[(n % 16) + 1]

\* the value of every byte (u8), under each way of writing it; Printable is
\* the printable ASCII characters from code 32 to code 126 (the backquote,
\* which a string cannot hold, written as its hex digits)
ByteValue ==
    LET Printable ==
          <<" ", "!", "\"", "#", "$", "%", "&", "'", "(", ")", "*", "+", ",", "-", ".", "/",
            "0", "1", "2", "3", "4", "5", "6", "7", "8", "9", ":", ";", "<", "=", ">", "?",
            "@", "A", "B", "C", "D", "E", "F", "G", "H", "I", "J", "K", "L", "M", "N", "O",
            "P", "Q", "R", "S", "T", "U", "V", "W", "X", "Y", "Z", "[", "\\", "]", "^", "_",
            "60", "a", "b", "c", "d", "e", "f", "g", "h", "i", "j", "k", "l", "m", "n", "o",
            "p", "q", "r", "s", "t", "u", "v", "w", "x", "y", "z", "{", "|", "}", "~">>
    IN  [b \in {HexByte(n) : n \in 0..255} \cup {Printable[i] : i \in 1..95} \cup {"\t", CR, LF} |->
            IF b = "\t" THEN 9
            ELSE IF b = LF THEN 10
            ELSE IF b = CR THEN 13
            ELSE IF \E i \in 1..95 : Printable[i] = b
            THEN 31 + (CHOOSE i \in 1..95 : Printable[i] = b)
            ELSE CHOOSE n \in 0..255 : HexByte(n) = b]

\* u32::to_be_bytes
ToBeBytes(v) ==
    << HexByte((v \div 16777216) % 256), HexByte((v \div 65536) % 256),
       HexByte((v \div 256) % 256), HexByte(v % 256) >>

(***************************************************************************)
(* Frame codec (reader_extention.rs).  A cursor is a pair (data, pos):     *)
(* pos bytes of data have been consumed.                                   *)
(***************************************************************************)
Rest(data, pos) == SubSeq(data, pos + 1, Len(data))

\* BufRead::read_until(0, buffer) on the cursor: the bytes up to and
\* including the first NUL, or all that is left
ReadUntilNul(data, pos) ==
    LET rest == Rest(data, pos)
        hits == {i \in 1..Len(rest) : rest[i] = NUL}
    IN  IF hits = {} THEN rest
        ELSE SubSeq(rest, 1, CHOOSE i \in hits : \A j \in hits : i <= j)

\* read_zbytes: the slice up to the last non-NUL byte of what read_until
\* returned; the whole buffer when no byte of it is non-NUL
StripZ(buffer) ==
    LET keep == {i \in 1..Len(buffer) : buffer[i] # NUL}
    IN  IF keep = {} THEN buffer
        ELSE SubSeq(buffer, 1, CHOOSE i \in keep : \A j \in keep : j <= i)

read_zbytes(data, pos) ==
    LET buffer == ReadUntilNul(data, pos)
    IN  [bytes |-> StripZ(buffer), pos |-> pos + Len(buffer)]

\* the head of a non-empty byte string as the UTF-8 decoder takes it: the
\* length of the well-formed character it starts with (`valid`, 0 when there
\* is none) or of the ill-formed sequence that is to be replaced (`invalid`):
\* a lead byte with the continuation bytes that still fit it
Utf8Head(bytes) ==
    LET b0 == ByteValue[bytes[1]]
        In(i, lo, hi) == i <= Len(bytes) /\ ByteValue[bytes[i]] \in lo..hi
        Well(n) == [valid |-> n, invalid |-> 0]
        Ill(n) == [valid |-> 0, invalid |-> n]
    IN  IF b0 < 128 THEN Well(1)
        ELSE IF b0 \in 194..223
        THEN IF In(2, 128, 191) THEN Well(2) ELSE Ill(1)
        ELSE IF b0 \in 224..239
        THEN LET lo == IF b0 = 224 THEN 160 ELSE 128
                 hi == IF b0 = 237 THEN 159 ELSE 191
             IN  IF ~In(2, lo, hi) THEN Ill(1)
                 ELSE IF ~In(3, 128, 191) THEN Ill(2)
                 ELSE Well(3)
        ELSE IF b0 \in 240..244
        THEN LET lo == IF b0 = 240 THEN 144 ELSE 128
                 hi == IF b0 = 244 THEN 143 ELSE 191
             IN  IF ~In(2, lo, hi) THEN Ill(1)
                 ELSE IF ~In(3, 128, 191) THEN Ill(2)
                 ELSE IF ~In(4, 128, 191) THEN Ill(3)
                 ELSE Well(4)
        ELSE Ill(1)

\* str::from_utf8 succeeds
RECURSIVE ValidUtf8(_)
ValidUtf8(bytes) ==
    IF bytes = <<>> THEN TRUE
    ELSE LET h == Utf8Head(bytes)
         IN  h.valid > 0 /\ ValidUtf8(SubSeq(bytes, h.valid + 1, Len(bytes)))

\* String::from_utf8_lossy: every ill-formed sequence becomes one U+FFFD
\* (EF BF BD in UTF-8)
RECURSIVE from_utf8_lossy(_)
from_utf8_lossy(bytes) ==
    IF bytes = <<>> THEN <<>>
    ELSE LET h == Utf8Head(bytes)
         IN  IF h.valid > 0
             THEN SubSeq(bytes, 1, h.valid)
                  \o from_utf8_lossy(SubSeq(bytes, h.valid + 1, Len(bytes)))
             ELSE <<"EF", "BF", "BD">>
                  \o from_utf8_lossy(SubSeq(bytes, h.invalid + 1, Len(bytes)))

read_zstring(data, pos) ==
    LET z == read_zbytes(data, pos)
    IN  [bytes |-> from_utf8_lossy(z.bytes), pos |-> z.pos]

\* anglestrip that looks at the opening bracket only
anglestrip_OpenOnly(s) ==
    IF Len(s) > 1 /\ s[1] = "<"
    THEN SubSeq(s, 2, Len(s) - 1)
    ELSE s

anglestrip(s) ==
    IF Len(s) > 1 /\ s[1] = "<" /\ s[Len(s)] = ">"
    THEN SubSeq(s, 2, Len(s) - 1)
    ELSE s

read_zstring_anglestripped(data, pos) ==
    LET z == read_zbytes(data, pos)
    IN  [bytes |-> from_utf8_lossy(anglestrip(z.bytes)), pos |-> z.pos]

(***************************************************************************)
(* Library functions of lib.rs.                                            *)
(***************************************************************************)
\* get_only_recipient that returns the first recipient of any non-empty list
get_only_recipient_First(recipients) ==
    IF Len(recipients) >= 1 THEN recipients[1] ELSE <<>>

\* MailInfo::get_only_recipient (lib.rs 96-102)
get_only_recipient(recipients) ==
    IF Len(recipients) = 1 THEN recipients[1] ELSE <<>>

\* BufRead::lines: the text cut after every LF, each line without its LF and
\* without one CR before that LF; no line for the empty rest after the last LF
RECURSIVE Lines(_)
Lines(bytes) ==
    LET hits == {i \in 1..Len(bytes) : bytes[i] = LF}
    IN  IF bytes = <<>> THEN <<>>
        ELSE IF hits = {} THEN <<bytes>>
        ELSE LET i == CHOOSE i \in hits : \A j \in hits : i <= j
                 end == IF i > 1 /\ bytes[i - 1] = CR THEN i - 2 ELSE i - 1
             IN  <<SubSeq(bytes, 1, end)>> \o Lines(SubSeq(bytes, i + 1, Len(bytes)))

\* BeforeHash that keeps a comment that follows text
BeforeHash_KeepInline(line) ==
    IF line # <<>> /\ line[1] = "#" THEN <<>> ELSE line

\* line.split('#').next(): the text before the first `#`
BeforeHash(line) ==
    LET hits == {i \in 1..Len(line) : line[i] = "#"}
    IN  IF hits = {} THEN line
        ELSE SubSeq(line, 1, (CHOOSE i \in hits : \A j \in hits : i <= j) - 1)

\* the characters with the White_Space property (char::is_whitespace), in
\* UTF-8: U+0009..U+000D, U+0020, U+0085, U+00A0, U+1680, U+2000..U+200A,
\* U+2028, U+2029, U+202F, U+205F, U+3000
Whitespace ==
    {<<"\t">>, <<LF>>, <<"0B">>, <<"0C">>, <<CR>>, <<" ">>,
     <<"C2", "85">>, <<"C2", "A0">>, <<"E1", "9A", "80">>,
     <<"E2", "80", "A8">>, <<"E2", "80", "A9">>, <<"E2", "80", "AF">>,
     <<"E2", "81", "9F">>, <<"E3", "80", "80">>}
    \cup {<<"E2", "80", HexByte(128 + k)>> : k \in 0..10}

\* str::trim_start
RECURSIVE TrimStart(_)
TrimStart(t) ==
    LET heads == {w \in Whitespace : Len(w) <= Len(t) /\ SubSeq(t, 1, Len(w)) = w}
    IN  IF heads = {} THEN t
        ELSE TrimStart(SubSeq(t, Len(CHOOSE w \in heads : TRUE) + 1, Len(t)))

\* str::trim_end
RECURSIVE TrimEnd(_)
TrimEnd(t) ==
    LET tails == {w \in Whitespace :
                    Len(w) <= Len(t) /\ SubSeq(t, Len(t) - Len(w) + 1, Len(t)) = w}
    IN  IF tails = {} THEN t
        ELSE TrimEnd(SubSeq(t, 1, Len(t) - Len(CHOOSE w \in tails : TRUE)))

\* the loop of read_array (lib.rs 546-553) over the lines of the file, with
\* str::trim as trim_start and trim_end; the result is Ok(out), or Err for a
\* line that is not UTF-8, which the iterator gives and `line?` returns
RECURSIVE PushEntries(_, _)
PushEntries(out, lines) ==
    IF lines = <<>> THEN [ok |-> TRUE, val |-> out]
    ELSE IF ~ValidUtf8(Head(lines)) THEN [ok |-> FALSE, val |-> <<>>]
    ELSE LET t == TrimEnd(TrimStart(BeforeHash(Head(lines))))
         IN  PushEntries(IF t # <<>> THEN Append(out, t) ELSE out, Tail(lines))

\* read_array (lib.rs 542-555) on a file: File::open fails when there is none
read_array(file) ==
    IF ~file.exists THEN [ok |-> FALSE, val |-> <<>>]
    ELSE PushEntries(<<>>, Lines(file.content))

\* array_contains (lib.rs 558-565)
RECURSIVE array_contains(_, _)
array_contains(haystack, needle) ==
    IF haystack = <<>> THEN FALSE
    ELSE IF Head(haystack) = needle THEN TRUE
    ELSE array_contains(Tail(haystack), needle)

(***************************************************************************)
(* Maps (HashMap<String, String>).                                         *)
(***************************************************************************)
EmptyMap == [k \in {} |-> <<>>]
MapInsert(m, k, v) == [x \in (DOMAIN m) \cup {k} |-> IF x = k THEN v ELSE m[x]]
\* MapInsertAll in which a name already present keeps its value
MapInsertAll_KeepPresent(into, from) ==
    [x \in (DOMAIN into) \cup (DOMAIN from) |-> IF x \in DOMAIN into THEN into[x] ELSE from[x]]

\* for (key, value) in &from { into.insert(key, value) }
MapInsertAll(into, from) ==
    [x \in (DOMAIN into) \cup (DOMAIN from) |-> IF x \in DOMAIN from THEN from[x] ELSE into[x]]

\* the loop of the 'D' arm: name/value pairs until an empty name
RECURSIVE ParseMacros(_, _, _)
ParseMacros(data, pos, macro_map) ==
    LET name == read_zstring(data, pos)
        value == read_zstring(data, name.pos)
    IN  IF name.bytes = <<>> THEN macro_map
        ELSE ParseMacros(data, value.pos, MapInsert(macro_map, name.bytes, value.bytes))

(***************************************************************************)
(* MailInfoStorage and the replies.                                        *)
(***************************************************************************)
DefaultStorage ==
    [sender |-> <<>>, recipients |-> <<>>, macros |-> EmptyMap,
     id |-> <<>>, mail_buffer |-> <<>>]

\* ResetStorage that clears everything but the recipients
ResetStorage_KeepRecipients(st) == [DefaultStorage EXCEPT !.recipients = st.recipients]

\* ResetStorage that leaves the message bytes in place
ResetStorage_KeepBody(st) == [DefaultStorage EXCEPT !.mail_buffer = st.mail_buffer]

\* storage = MailInfoStorage::default() (lines 199 and 206)
ResetStorage(st) == DefaultStorage

\* one frame as written to stream_writer: the position of the scratch cursor
\* as u32 length prefix, then the scratch buffer up to that position
WriteFrame(payload) == [len |-> ToBeBytes(Len(payload)), payload |-> payload]

\* ProtocolFlags that asks for no body whenever a cap is set
ProtocolFlags_NoBodyWhenCapped(t) ==
    LET base == BitOr(SMFIP_NOCONNECT, BitOr(SMFIP_NOHELO, BitOr(SMFIP_NR_HDR,
                BitOr(SMFIP_NOUNKNOWN, BitOr(SMFIP_NODATA, BitOr(SMFIP_SKIP,
                BitOr(SMFIP_NR_CONN, BitOr(SMFIP_NR_MAIL, BitOr(SMFIP_NR_RCPT,
                SMFIP_NR_EOH)))))))))
    IN  IF t = UsizeMax THEN BitOr(base, SMFIP_NR_BODY) ELSE BitOr(base, SMFIP_NOBODY)

\* lines 64-79: the protocol word of the option reply
ProtocolFlags(t) ==
    LET base == BitOr(SMFIP_NOCONNECT, BitOr(SMFIP_NOHELO, BitOr(SMFIP_NR_HDR,
                BitOr(SMFIP_NOUNKNOWN, BitOr(SMFIP_NODATA, BitOr(SMFIP_SKIP,
                BitOr(SMFIP_NR_CONN, BitOr(SMFIP_NR_MAIL, BitOr(SMFIP_NR_RCPT,
                SMFIP_NR_EOH)))))))))
        p1 == IF t = 0 THEN BitOr(base, SMFIP_NOBODY) ELSE base
    IN  IF t = UsizeMax THEN BitOr(p1, SMFIP_NR_BODY) ELSE p1

OptionReply(t) ==
    <<"O">> \o ToBeBytes(SMFIF_VERSION) \o ToBeBytes(SMFIF_QUARANTINE)
            \o ToBeBytes(ProtocolFlags(t))

ContinuePayload == <<"c">>
SkipPayload == <<"s">>
AcceptPayload == <<"a">>
RejectPayload == <<"r">>
QuarantinePayload == <<"q", "m", "i", "l", "t", "e", "r", NUL>>

(***************************************************************************)
(* The write path byte by byte: the scratch cursor `writer` (lines 37-38)  *)
(* is rewound and refilled for every reply and never cleared.              *)
(***************************************************************************)
\* Cursor::rewind
Rewind(w) == [w EXCEPT !.pos = 0]

\* Cursor<Vec<u8>>::write_all: the bytes overwrite the buffer from the
\* position on and extend it where it is too short
WriteAll(w, bytes) ==
    LET end == w.pos + Len(bytes)
        n == IF Len(w.buf) > end THEN Len(w.buf) ELSE end
    IN  [buf |-> [i \in 1..n |-> IF i > w.pos /\ i <= end THEN bytes[i - w.pos]
                                 ELSE w.buf[i]],
         pos |-> end]

\* EmitFrame that sends the whole scratch buffer after the length
EmitFrame_WholeBuffer(w) == ToBeBytes(w.pos) \o w.buf

\* the two write_all calls on stream_writer (lines 80-81 and alike): the
\* position as u32, then the scratch buffer up to the position
EmitFrame(w) == ToBeBytes(w.pos) \o SubSeq(w.buf, 1, w.pos)

\* u32::from_be_bytes on four bytes (read_u32_be)
FromBeBytes(b) ==
    ((ByteValue[b[1]] * 256 + ByteValue[b[2]]) * 256 + ByteValue[b[3]]) * 256
        + ByteValue[b[4]]

\* VerdictFrames with the accept after the quarantine frame forgotten
VerdictFrames_NoAcceptAfterQuarantine(r) ==
    CASE r = "Accept" -> <<WriteFrame(AcceptPayload)>>
      [] r = "Reject" -> <<WriteFrame(RejectPayload)>>
      [] r = "Quarantine" -> <<WriteFrame(QuarantinePayload)>>

\* the frames written for a verdict, before the single flush of the 'E' arm
VerdictFrames(r) ==
    CASE r = "Accept" -> <<WriteFrame(AcceptPayload)>>
      [] r = "Reject" -> <<WriteFrame(RejectPayload)>>
      [] r = "Quarantine" -> <<WriteFrame(QuarantinePayload), WriteFrame(AcceptPayload)>>

\* BodyReplyFrames that replies even when body replies are disabled
BodyReplyFrames_ReplyWhenUnlimited(t, buffered) ==
    IF buffered < t THEN <<WriteFrame(ContinuePayload)>>
    ELSE <<WriteFrame(SkipPayload)>>

\* the reply of the 'B' arm once the chunk is appended
BodyReplyFrames(t, buffered) ==
    IF t = UsizeMax THEN <<>>
    ELSE IF buffered < t THEN <<WriteFrame(ContinuePayload)>>
    ELSE <<WriteFrame(SkipPayload)>>

\* what a loop iteration leaves in `reply`: one flush of these frames, or nothing
Flushed(frames) == IF frames = <<>> THEN <<>> ELSE <<frames>>

\* classify_mail that hands the message to the classifier even when unparsed
classify_mail_IgnoreParseFailure(has_classifier, parsed, verdict) ==
    IF has_classifier THEN verdict ELSE "Accept"

\* classify_mail: no classifier or an unparsable message is Accept, otherwise
\* what the user's classifier returns
\* Invocations that calls the classifier a second time
Invocations_Retry(has_classifier, parsed, st) ==
    IF has_classifier /\ parsed THEN <<st, st>> ELSE <<>>

\* lib.rs 399-407: the calls of classifier.classify made by one call of
\* classify_mail, each with the MailInfo built over the storage
Invocations(has_classifier, parsed, st) ==
    IF has_classifier /\ parsed THEN <<st>> ELSE <<>>

classify_mail(has_classifier, parsed, verdict) ==
    IF has_classifier
    THEN IF parsed THEN verdict ELSE "Accept"
    ELSE "Accept"

(***************************************************************************)
(* The frames a peer sends.  A frame is its u32 length prefix and the      *)
(* payload bytes that arrive; data[1] is the command byte.                 *)
(***************************************************************************)
Frame(data) == [len |-> Len(data), data |-> data]

OFrames == {Frame(<<"O">>), Frame(<<"O", NUL, NUL, NUL, "02">>)}
DFrames ==
    {Frame(<<"D">> \o p) : p \in
        { <<"C", "j", NUL, "x", NUL, "i", NUL, "1", NUL>>,
          <<"M", "i", NUL, "2", NUL, "k", NUL, "y", NUL>>,
          <<>> }}
MFrames == {Frame(<<"M">> \o p) : p \in {<<"<", "a", ">", NUL>>, <<"b", NUL, "X", NUL>>}}
RFrames == {Frame(<<"R">> \o p) : p \in {<<"<", "c", ">", NUL>>, <<"<", "d", NUL>>}}
LFrames == {Frame(<<"L">> \o p) : p \in {<<"S", NUL, "h", NUL>>}}
BFrames == {Frame(<<"B">> \o p) : p \in {<<"A", "B", "C", "D">>}}
EFrames == {Frame(<<"E">>)}
\* the shortest Q frame, the longest frame the loop takes, and one byte more;
\* Padded is a payload of n bytes that starts with the command byte c
QFrames ==
    LET Padded(c, n) == [i \in 1..n |-> IF i = 1 THEN c ELSE NUL]
    IN  {Frame(<<"Q">>), Frame(Padded("Q", MaxFrameLen)), Frame(Padded("Q", MaxFrameLen + 1))}
AFrames == {Frame(<<"A">>)}
UnknownFrames == {Frame(<<"Z", "z">>)}
\* frames that end the connection before a command is dispatched: an empty
\* frame, a frame cut short by the peer, a frame longer than the limit
BadFrames ==
    { [len |-> 0, data |-> <<>>],
      [len |-> 5, data |-> <<"M", "<">>],
      [len |-> 1, data |-> <<>>],
      [len |-> MaxFrameLen + 1, data |-> <<>>] }

Verdicts == {"Accept", "Reject", "Quarantine"}
NoCmd == "-"
\* no length prefix has been read: read_u32_be has not run or has failed
NoLen == 0 - 1
NoResult == "-"

(***************************************************************************)
(* process_client: one action per arm of the loop.                         *)
(***************************************************************************)
\* lines 46-53: the frame is read whole and its command byte decoded
FrameRead(f) == f.len <= MaxFrameLen /\ Len(f.data) = f.len /\ f.len >= 1

\* an arm that writes `frames`, flushes (stream_writer.flush(): `flushed` is
\* TRUE when the peer took the bytes) and goes on to the next frame
WriteAndFlush(frames, flushed) ==
    /\ reply' = (IF flushed THEN Flushed(frames) ELSE <<>>)
    /\ client' = (IF flushed \/ frames = <<>> THEN "read" ELSE "err")

ClientInit ==
    /\ truncate \in {0, FiniteCap, UsizeMax}
    /\ overflow_checks \in BOOLEAN
    /\ full_mail_classifier \in BOOLEAN
    /\ client = "read"
    /\ connect_macros = EmptyMap
    /\ storage = DefaultStorage
    /\ len = NoLen
    /\ cmd = NoCmd
    /\ msg = NoResult
    /\ result = NoResult
    /\ seen = <<>>
    /\ reply = <<>>
    /\ skips = 0
    /\ nframes = 0

\* lines 46-53: EOF, oversize frame, short read, or no command byte
RecvError ==
    /\ client = "read"
    /\ nframes < MaxFrames
    /\ nframes' = nframes + 1
    /\ \E f \in BadFrames \cup QFrames : ~FrameRead(f) /\ len' = f.len
    /\ client' = "err"
    /\ cmd' = NoCmd
    /\ reply' = <<>>
    /\ UNCHANGED <<truncate, overflow_checks, full_mail_classifier, connect_macros,
                   storage, skips>>
    /\ result' = NoResult /\ msg' = NoResult /\ seen' = <<>>

\* the stream ends at a frame boundary: read_u32_be fails (line 46)
RecvEof ==
    /\ client = "read"
    /\ nframes < MaxFrames
    /\ nframes' = nframes + 1
    /\ client' = "err"
    /\ len' = NoLen
    /\ cmd' = NoCmd
    /\ reply' = <<>>
    /\ UNCHANGED <<truncate, overflow_checks, full_mail_classifier, connect_macros,
                   storage, skips>>
    /\ result' = NoResult /\ msg' = NoResult /\ seen' = <<>>

CmdO ==
    /\ client = "read"
    /\ nframes < MaxFrames
    /\ nframes' = nframes + 1
    /\ \E f \in OFrames, flushed \in BOOLEAN :
        /\ FrameRead(f) /\ f.data[1] = "O"
        /\ cmd' = "O" /\ len' = f.len
        /\ WriteAndFlush(<<WriteFrame(OptionReply(truncate))>>, flushed)
    /\ UNCHANGED <<truncate, overflow_checks, full_mail_classifier, connect_macros,
                   storage, skips>>
    /\ result' = NoResult /\ msg' = NoResult /\ seen' = <<>>

DArm(frames) ==
    /\ client = "read"
    /\ nframes < MaxFrames
    /\ nframes' = nframes + 1
    /\ \E f \in frames :
        /\ FrameRead(f) /\ f.data[1] = "D"
        /\ cmd' = "D" /\ len' = f.len
        /\ reply' = <<>>
        /\ IF Len(f.data) < 2
           THEN \* read_char for the phase letter fails
                /\ client' = "err"
                /\ UNCHANGED <<connect_macros, storage>>
           ELSE /\ client' = "read"
                /\ IF f.data[2] = "C"
                   THEN /\ connect_macros' = ParseMacros(f.data, 2, connect_macros)
                        /\ UNCHANGED storage
                   ELSE /\ storage' = [storage EXCEPT
                                          !.macros = ParseMacros(f.data, 2, storage.macros)]
                        /\ UNCHANGED connect_macros
    /\ UNCHANGED <<truncate, overflow_checks, full_mail_classifier, skips>>
    /\ result' = NoResult /\ msg' = NoResult /\ seen' = <<>>

\* the 'D' arm on the frames of DFrames, and on a later D frame of the
\* connect phase that carries `i` alone
CmdD == DArm(DFrames)
CmdDLater == DArm({Frame(<<"D", "C", "i", NUL, "3", NUL>>)})

CmdM ==
    /\ client = "read"
    /\ nframes < MaxFrames
    /\ nframes' = nframes + 1
    /\ \E f \in MFrames :
        /\ FrameRead(f) /\ f.data[1] = "M"
        /\ cmd' = "M" /\ len' = f.len
        /\ storage' = [storage EXCEPT !.sender = read_zstring_anglestripped(f.data, 1).bytes]
    /\ reply' = <<>>
    /\ UNCHANGED <<truncate, overflow_checks, full_mail_classifier, client,
                   connect_macros, skips>>
    /\ result' = NoResult /\ msg' = NoResult /\ seen' = <<>>

CmdR ==
    /\ client = "read"
    /\ nframes < MaxFrames
    /\ nframes' = nframes + 1
    /\ Len(storage.recipients) < MaxRcpt
    /\ \E f \in RFrames :
        /\ FrameRead(f) /\ f.data[1] = "R"
        /\ cmd' = "R" /\ len' = f.len
        /\ storage' = [storage EXCEPT !.recipients =
                          Append(@, read_zstring_anglestripped(f.data, 1).bytes)]
    /\ reply' = <<>>
    /\ UNCHANGED <<truncate, overflow_checks, full_mail_classifier, client,
                   connect_macros, skips>>
    /\ result' = NoResult /\ msg' = NoResult /\ seen' = <<>>

\* the bytes the 'L' arm appends: name, ": ", value, CR LF
HeaderBytes(data) ==
    LET name == read_zbytes(data, 1)
        value == read_zbytes(data, name.pos)
    IN  name.bytes \o <<":", " ">> \o value.bytes \o <<CR, LF>>

CmdL ==
    /\ client = "read"
    /\ nframes < MaxFrames
    /\ nframes' = nframes + 1
    /\ \E f \in LFrames :
        /\ FrameRead(f) /\ f.data[1] = "L"
        /\ Len(storage.mail_buffer) + Len(HeaderBytes(f.data)) <= MaxBuf
        /\ cmd' = "L" /\ len' = f.len
        /\ storage' = [storage EXCEPT !.mail_buffer = @ \o HeaderBytes(f.data)]
    /\ reply' = <<>>
    /\ UNCHANGED <<truncate, overflow_checks, full_mail_classifier, client,
                   connect_macros, skips>>
    /\ result' = NoResult /\ msg' = NoResult /\ seen' = <<>>

CmdN ==
    /\ client = "read"
    /\ nframes < MaxFrames
    /\ nframes' = nframes + 1
    /\ \E f \in {Frame(<<"N">>)} :
        /\ FrameRead(f) /\ f.data[1] = "N"
        /\ Len(storage.mail_buffer) + 2 <= MaxBuf
        /\ cmd' = "N" /\ len' = f.len
        /\ storage' = [storage EXCEPT !.mail_buffer = @ \o <<CR, LF>>]
    /\ reply' = <<>>
    /\ UNCHANGED <<truncate, overflow_checks, full_mail_classifier, client,
                   connect_macros, skips>>
    /\ result' = NoResult /\ msg' = NoResult /\ seen' = <<>>

\* lines 128-137: what the 'B' arm leaves in mail_buffer
\* (buffer_space is truncate - mail_buffer.len(), computed by the caller)
AppendChunk(mail_buffer, data, buffer_space) ==
    IF Len(data) <= buffer_space
    THEN mail_buffer \o data
    ELSE mail_buffer \o SubSeq(data, 1, buffer_space)

CmdB ==
    /\ client = "read"
    /\ nframes < MaxFrames
    /\ nframes' = nframes + 1
    /\ \E f \in BFrames, flushed \in BOOLEAN :
        /\ FrameRead(f) /\ f.data[1] = "B"
        /\ cmd' = "B" /\ len' = f.len
        /\ IF Len(storage.mail_buffer) > truncate /\ overflow_checks
           THEN \* attempt to subtract with overflow
                /\ client' = "panic"
                /\ reply' = <<>>
                /\ UNCHANGED <<storage, skips>>
           ELSE LET buffer_space == WrappingSubUsize(truncate, Len(storage.mail_buffer))
                    buf == AppendChunk(storage.mail_buffer, Rest(f.data, 1), buffer_space)
                    frames == BodyReplyFrames(truncate, Len(buf))
                IN  /\ Len(buf) <= MaxBuf
                    /\ storage' = [storage EXCEPT !.mail_buffer = buf]
                    /\ WriteAndFlush(frames, flushed)
                    /\ skips' = (IF flushed /\ frames = <<WriteFrame(SkipPayload)>> THEN skips + 1 ELSE skips)
    /\ UNCHANGED <<truncate, overflow_checks, full_mail_classifier, connect_macros>>
    /\ result' = NoResult /\ msg' = NoResult /\ seen' = <<>>

\* lines 160-169: merge, id, and the call of classify_mail
MergedStorage(st, cm) ==
    LET macros == MapInsertAll(st.macros, cm)
    IN  [st EXCEPT !.macros = macros,
                   !.id = IF <<"i">> \in DOMAIN macros THEN macros[<<"i">>] ELSE <<"-">>]

CmdE ==
    /\ client = "read"
    /\ nframes < MaxFrames
    /\ nframes' = nframes + 1
    /\ \E f \in EFrames, parsed \in BOOLEAN, verdict \in Verdicts \cup {"panic"} :
        /\ FrameRead(f) /\ f.data[1] = "E"
        /\ cmd' = "E" /\ len' = f.len
        /\ storage' = MergedStorage(storage, connect_macros)
        /\ msg' = (IF ~full_mail_classifier THEN NoResult
                   ELSE IF parsed THEN "some" ELSE "none")
        /\ seen' = Invocations(full_mail_classifier, parsed,
                               MergedStorage(storage, connect_macros))
        /\ IF full_mail_classifier /\ parsed /\ verdict = "panic"
           THEN /\ client' = "panic"
                /\ result' = NoResult
           ELSE /\ verdict # "panic"
                /\ client' = "classified"
                /\ result' = classify_mail(full_mail_classifier, parsed, verdict)
    /\ reply' = <<>>
    /\ UNCHANGED <<truncate, overflow_checks, full_mail_classifier, connect_macros, skips>>

\* lines 170-199: the verdict is written, flushed once, and storage is reset
ReplyE ==
    /\ client = "classified"
    /\ \E flushed \in BOOLEAN :
        /\ WriteAndFlush(VerdictFrames(result), flushed)
        /\ IF flushed
           THEN storage' = ResetStorage(storage) /\ skips' = 0 /\ nframes' = 0
           ELSE UNCHANGED <<storage, skips, nframes>>
    /\ UNCHANGED <<truncate, overflow_checks, full_mail_classifier, connect_macros,
                   len, cmd, msg, result, seen>>

CmdQ ==
    /\ client = "read"
    /\ nframes < MaxFrames
    /\ nframes' = nframes + 1
    /\ \E f \in QFrames :
        /\ FrameRead(f) /\ f.data[1] = "Q"
        /\ cmd' = "Q" /\ len' = f.len
    /\ client' = "ok"
    /\ reply' = <<>>
    /\ UNCHANGED <<truncate, overflow_checks, full_mail_classifier, connect_macros,
                   storage, skips>>
    /\ result' = NoResult /\ msg' = NoResult /\ seen' = <<>>

\* CmdA that drops the connect-scope macros with the envelope
CmdA_ClearsConnect ==
    /\ client = "read"
    /\ \E f \in AFrames :
        /\ FrameRead(f) /\ f.data[1] = "A"
        /\ cmd' = "A" /\ len' = f.len
    /\ storage' = ResetStorage(storage)
    /\ connect_macros' = EmptyMap
    /\ skips' = 0
    /\ nframes' = 0
    /\ reply' = <<>>
    /\ UNCHANGED <<truncate, overflow_checks, full_mail_classifier, client>>
    /\ result' = NoResult /\ msg' = NoResult /\ seen' = <<>>

\* lines 205-208
CmdA ==
    /\ client = "read"
    /\ \E f \in AFrames :
        /\ FrameRead(f) /\ f.data[1] = "A"
        /\ cmd' = "A" /\ len' = f.len
    /\ storage' = ResetStorage(storage)
    /\ skips' = 0
    /\ nframes' = 0
    /\ reply' = <<>>
    /\ UNCHANGED <<truncate, overflow_checks, full_mail_classifier, client,
                   connect_macros>>
    /\ result' = NoResult /\ msg' = NoResult /\ seen' = <<>>

\* lines 209-215: todo!("unimplemented")
CmdUnknown ==
    /\ client = "read"
    /\ nframes < MaxFrames
    /\ nframes' = nframes + 1
    /\ \E f \in UnknownFrames :
        /\ FrameRead(f)
        /\ f.data[1] \notin {"O", "D", "M", "R", "L", "N", "B", "E", "Q", "A"}
        /\ cmd' = f.data[1] /\ len' = f.len
    /\ client' = "panic"
    /\ reply' = <<>>
    /\ UNCHANGED <<truncate, overflow_checks, full_mail_classifier, connect_macros,
                   storage, skips>>
    /\ result' = NoResult /\ msg' = NoResult /\ seen' = <<>>

(***************************************************************************)
(* The replies of process_client on the write path.                        *)
(***************************************************************************)
WriterIdle ==
    /\ writer = [buf |-> <<>>, pos |-> 0]
    /\ wire = <<>>
    /\ sent = <<>>

\* one reply: rewind, fill the scratch buffer, write length and bytes
WriteReply(payload) ==
    LET w == WriteAll(Rewind(writer), payload)
    IN  /\ writer' = w
        /\ wire' = wire \o EmitFrame(w)
        /\ sent' = Append(sent, payload)

\* lines 60-82: the option reply, its three words written one by one
ReplyOption ==
    /\ Len(sent) < MaxReplies
    /\ LET w1 == WriteAll(Rewind(writer), <<"O">>)
           w2 == WriteAll(w1, ToBeBytes(SMFIF_VERSION))
           w3 == WriteAll(w2, ToBeBytes(SMFIF_QUARANTINE))
           w4 == WriteAll(w3, ToBeBytes(ProtocolFlags(truncate)))
       IN  /\ writer' = w4
           /\ wire' = wire \o EmitFrame(w4)
           /\ sent' = Append(sent, OptionReply(truncate))
    /\ UNCHANGED <<client_vars, daemon_vars, peer, call>>

\* lines 141-145
ReplyContinue ==
    /\ Len(sent) < MaxReplies
    /\ truncate # UsizeMax
    /\ WriteReply(ContinuePayload)
    /\ UNCHANGED <<client_vars, daemon_vars, peer, call>>

\* lines 148-152
ReplySkip ==
    /\ Len(sent) < MaxReplies
    /\ truncate # UsizeMax
    /\ WriteReply(SkipPayload)
    /\ UNCHANGED <<client_vars, daemon_vars, peer, call>>

\* lines 172-176
ReplyAccept ==
    /\ Len(sent) < MaxReplies
    /\ WriteReply(AcceptPayload)
    /\ UNCHANGED <<client_vars, daemon_vars, peer, call>>

\* lines 179-183
ReplyReject ==
    /\ Len(sent) < MaxReplies
    /\ WriteReply(RejectPayload)
    /\ UNCHANGED <<client_vars, daemon_vars, peer, call>>

\* lines 186-195: the quarantine frame and the accept frame after it
ReplyQuarantine ==
    /\ Len(sent) + 1 < MaxReplies
    /\ LET w1 == WriteAll(Rewind(writer), QuarantinePayload)
           w2 == WriteAll(Rewind(w1), AcceptPayload)
       IN  /\ writer' = w2
           /\ wire' = wire \o EmitFrame(w1) \o EmitFrame(w2)
           /\ sent' = sent \o <<QuarantinePayload, AcceptPayload>>
    /\ UNCHANGED <<client_vars, daemon_vars, peer, call>>

(***************************************************************************)
(* The library functions called on their own, on inputs of bounded length. *)
(***************************************************************************)
CallIdle == call = [fn |-> "none", arg |-> <<>>, out |-> <<>>, done |-> FALSE]

\* the sequences over `alphabet` of length up to n
SeqsUpTo(alphabet, n) == UNION {[1..k -> alphabet] : k \in 0..n}

\* the fields given to read_zstring_anglestripped, the envelopes given to
\* get_only_recipient and the files given to read_array
Fields == SeqsUpTo({"<", ">", "x"}, MaxField)
Envelopes == SeqsUpTo({<<>>, <<"c">>, <<"d">>}, MaxRcpt)
Files ==
    {[exists |-> TRUE, content |-> c] : c \in SeqsUpTo({"a", " ", "#", LF, "\t", CR, "FF"}, MaxFile)}
    \cup {[exists |-> FALSE, content |-> <<>>]}

\* the calls made, each with its argument and not run yet:
\* read_zstring_anglestripped on a cursor over a field with its NUL, or at
\* the end of the data without one; get_only_recipient on an envelope;
\* read_array on a file; array_contains on what read_array returned for a
\* file and one of a few needles
Calls ==
    LET Pending(fn, arg) == [fn |-> fn, arg |-> arg, out |-> <<>>, done |-> FALSE]
        Needles == {<<>>, <<"a">>, <<"a", "a">>, <<"a", " ", "a">>}
    IN  {Pending("read_zstring_anglestripped", field \o terminator) :
            field \in Fields, terminator \in {<<>>, <<NUL>>}}
        \cup {Pending("get_only_recipient", recipients) : recipients \in Envelopes}
        \cup {Pending("read_array", file) : file \in Files}
        \cup {Pending("array_contains", [haystack |-> read_array(file).val, needle |-> needle]) :
                file \in Files, needle \in Needles}

Return(out) ==
    /\ call' = [call EXCEPT !.out = out, !.done = TRUE]
    /\ UNCHANGED <<client_vars, daemon_vars, peer, writer, wire, sent>>

CallAnglestripped ==
    /\ call.fn = "read_zstring_anglestripped" /\ ~call.done
    /\ Return(read_zstring_anglestripped(call.arg, 0).bytes)

CallOnlyRecipient ==
    /\ call.fn = "get_only_recipient" /\ ~call.done
    /\ Return(get_only_recipient(call.arg))

CallReadArray ==
    /\ call.fn = "read_array" /\ ~call.done
    /\ Return(read_array(call.arg))

CallArrayContains ==
    /\ call.fn = "array_contains" /\ ~call.done
    /\ Return(array_contains(call.arg.haystack, call.arg.needle))

(***************************************************************************)
(* Properties of one connection (specification Spec).                      *)
(***************************************************************************)
\* the frames as they appear on the wire
OneByteFrame(c) == [len |-> <<"00", "00", "00", "01">>, payload |-> <<c>>]
QuarantineFrame ==
    [len |-> <<"00", "00", "00", "08">>,
     payload |-> <<"q", "m", "i", "l", "t", "e", "r", "00">>]

\* the loop has just handled a B frame to its end (chunk appended, reply flushed)
BodyChunkHandled ==
    cmd' = "B" /\ nframes' = nframes + 1 /\ client' = "read"

\* C1: when the E arm has run to its end, what it wrote is fixed by the verdict:
\* Accept gives the one frame `a`, Reject the one frame `r`, Quarantine the two
\* frames `qmilter\0` and `a` in that order under a single flush; nothing is
\* written for E before the verdict or when the classifier panics.
C1_VerdictDeterminesReply ==
    cmd = "E" =>
        /\ client = "read" /\ result = "Accept" => reply = << <<OneByteFrame("a")>> >>
        /\ client = "read" /\ result = "Reject" => reply = << <<OneByteFrame("r")>> >>
        /\ client = "read" /\ result = "Quarantine" =>
               reply = << <<QuarantineFrame, OneByteFrame("a")>> >>
        /\ client = "read" => result \in Verdicts
        /\ client # "read" => reply = <<>>

C1_Witness ==
    /\ cmd = "E" /\ client = "read" /\ result = "Quarantine"
    /\ Len(reply) = 1 /\ Len(reply[1]) = 2

\* C2: with a finite cap, mail_buffer is no longer than the cap after each B
\* frame that was processed, whatever the headers before it.
C2_BodyWithinCap ==
    (cmd = "B" /\ client = "read" /\ truncate # UsizeMax)
        => Len(storage.mail_buffer) <= truncate

\* C3: with a finite cap, the B chunk that makes mail_buffer reach the cap is
\* answered with exactly one `s`; once a B chunk of a message was answered
\* with `s`, a later B chunk of that message gets no reply at all and leaves
\* mail_buffer as it was.
C3_NoReplyAfterSkip ==
    [][/\ (BodyChunkHandled /\ truncate # UsizeMax /\ skips = 0
            /\ Len(storage.mail_buffer) < truncate
            /\ Len(storage'.mail_buffer) = truncate)
          => reply' = << <<OneByteFrame("s")>> >>
       /\ (skips >= 1 /\ BodyChunkHandled)
          => (reply' = <<>> /\ storage'.mail_buffer = storage.mail_buffer)]_vars

\* C4: after the reply to E has been written, and after A, the accumulator is
\* in its default state.
C4_ResetAfterEndAndAbort ==
    ((cmd = "E" /\ client = "read") \/ cmd = "A") =>
        /\ storage.sender = <<>>
        /\ storage.recipients = <<>>
        /\ DOMAIN storage.macros = {}
        /\ storage.id = <<>>
        /\ storage.mail_buffer = <<>>

\* an E that followed connect-scope macros (merged into the envelope before the
\* reset), and an A
C4_Witness ==
    /\ cmd = "E" /\ client = "read" /\ reply # <<>>
    /\ connect_macros # EmptyMap

\* the loop has just read a frame header (or failed to)
FrameStep == nframes' = nframes + 1


\* C15: a first frame of a connection that is not O is rejected: it leaves the
\* accumulator alone and does not get the message classified.
C15_RejectedBeforeOption ==
    [][(cmd = NoCmd /\ client = "read" /\ cmd' \notin {"O", NoCmd})
        => (storage' = storage /\ client' # "classified")]_vars

\* C16: process_client returns Ok both after Q and when the stream ends at a
\* frame boundary.
C16_CleanEnds ==
    /\ cmd = "Q" => client = "ok"
    /\ (len = NoLen /\ cmd = NoCmd /\ client # "read") => client = "ok"

\* C18: when the parse of mail_buffer fails at E, the verdict is Accept, no
\* classifier runs (so none can panic), and once the reply is flushed the peer
\* has exactly `a` and the accumulator is reset.
C18_ParseFailureAccepts ==
    (cmd = "E" /\ msg = "none") =>
        /\ result = "Accept"
        /\ client # "panic"
        /\ client = "read" => (reply = << <<OneByteFrame("a")>> >> /\ storage = DefaultStorage)

C18_Witness ==
    /\ cmd = "E" /\ msg = "none" /\ full_mail_classifier
    /\ client = "read" /\ reply = << <<OneByteFrame("a")>> >>

\* C19: what an iteration of the loop has written when it goes on to the next
\* frame is the reply of its command and nothing else, in one flush: nothing
\* for D, M, R, L, N, Q, A, one option reply for O, one `c` or `s` for B when
\* truncate is finite and nothing otherwise, the verdict frames for E; an
\* iteration that ends the connection has delivered nothing.
C19_RepliesPerCommand ==
    /\ cmd \in {NoCmd, "D", "M", "R", "L", "N", "Q", "A", "Z"} => reply = <<>>
    /\ (cmd = "O" /\ client = "read") =>
          (Len(reply) = 1 /\ Len(reply[1]) = 1 /\ reply[1][1].payload[1] = "O")
    /\ (cmd = "B" /\ truncate = UsizeMax) => reply = <<>>
    /\ (cmd = "B" /\ truncate # UsizeMax /\ client = "read") =>
          reply \in { << <<OneByteFrame("c")>> >>, << <<OneByteFrame("s")>> >> }
    /\ (cmd = "E" /\ client = "read") =>
          (Len(reply) = 1 /\ reply[1][Len(reply[1])] \in {OneByteFrame("a"), OneByteFrame("r")})
    /\ client # "read" => reply = <<>>

\* a body chunk taken without any reply
C19_Witness ==
    /\ cmd = "B" /\ truncate = UsizeMax /\ client = "read"
    /\ Len(storage.mail_buffer) >= 4 /\ reply = <<>>

\* the option reply on the wire for each kind of truncate
ExpectedOptionFrame ==
    [len |-> <<"00", "00", "00", "0D">>,
     payload |-> <<"O", "00", "00", "00", "06", "00", "00", "00", "20">> \o
                 (IF truncate = 0 THEN <<"00", "04", "D7", "93">>
                  ELSE IF truncate = UsizeMax THEN <<"00", "0C", "D7", "83">>
                  ELSE <<"00", "04", "D7", "83">>)]

\* C20: the reply to O is `O`, version 6, actions 0x20 and the protocol word
\* 0x4D783, plus NOBODY (0x10) iff truncate = 0, plus NR_BODY (0x80000) iff
\* truncate is usize::MAX, whatever the client's payload.
C20_OptionReply ==
    (cmd = "O" /\ client = "read") => reply = << <<ExpectedOptionFrame>> >>

\* an O frame with a payload, under a finite non-zero cap
C20_Witness ==
    /\ cmd = "O" /\ client = "read" /\ len = 5
    /\ truncate = FiniteCap /\ reply = << <<ExpectedOptionFrame>> >>

\* C21: after a B frame under a finite cap the reply is `c` exactly when
\* mail_buffer is shorter than the cap and `s` exactly when it is as long as the
\* cap; with unlimited truncate a B frame gets no reply.
C21_BodyReply ==
    (cmd = "B" /\ client = "read") =>
        IF truncate = UsizeMax THEN reply = <<>>
        ELSE /\ reply = << <<OneByteFrame("c")>> >> <=> Len(storage.mail_buffer) < truncate
             /\ reply = << <<OneByteFrame("s")>> >> <=> Len(storage.mail_buffer) = truncate

\* the loop has just read a B frame
BodyStep == cmd' = "B" /\ nframes' = nframes + 1

\* C22: with truncate = 0 a B frame is taken as empty: it leaves mail_buffer as
\* it is and the loop goes on, whatever the headers before it.
C22_NoBodyAtCapZero ==
    [][(truncate = 0 /\ BodyStep) =>
          (storage'.mail_buffer = storage.mail_buffer /\ client' # "panic")]_vars

\* the first n bytes of a chunk (all of it when n is larger, none when n <= 0)
Prefix(chunk, n) == SubSeq(chunk, 1, IF n < Len(chunk) THEN n ELSE Len(chunk))

\* C23: mail_buffer grows only by what the frames carry: an L frame appends
\* name, `: `, value, CR LF; an N frame CR LF; a B frame the part of its chunk
\* that fits below the cap; every other command before the reset leaves it alone.
C23_MessageBytes ==
    [][/\ (cmd' = "L" /\ FrameStep) =>
             storage'.mail_buffer = storage.mail_buffer \o <<"S", ":", " ", "h", "\r", "\n">>
       /\ (cmd' = "N" /\ FrameStep) =>
             storage'.mail_buffer = storage.mail_buffer \o <<"\r", "\n">>
       /\ (BodyStep /\ client' # "panic") =>
             storage'.mail_buffer = storage.mail_buffer \o
                 Prefix(<<"A", "B", "C", "D">>,
                        IF truncate = UsizeMax THEN 4
                        ELSE truncate - Len(storage.mail_buffer))
       /\ (FrameStep /\ cmd' \notin {"L", "N", "B"}) =>
             storage'.mail_buffer = storage.mail_buffer]_vars

\* C24: an R frame appends its angle-stripped argument to the recipients
\* (`<c>` gives c, the unbalanced `<d` stays as it is, a repeated recipient is
\* kept); an M frame changes the sender only; no frame other than R changes
\* the recipients before the reset, so the classifier sees them at E as received.
C24_RecipientsInOrder ==
    [][/\ (cmd' = "R" /\ FrameStep) =>
             storage'.recipients \in {Append(storage.recipients, <<"c">>),
                                     Append(storage.recipients, <<"<", "d">>)}
       /\ (cmd' = "M" /\ FrameStep) =>
             storage' = [storage EXCEPT !.sender = storage'.sender]
       /\ (FrameStep /\ cmd' # "R") =>
             storage'.recipients = storage.recipients]_vars

\* the classifier is handed the same recipient twice
C24_Witness ==
    /\ cmd = "E" /\ client = "classified"
    /\ storage.recipients = << <<"c">>, <<"c">> >>

\* C25: at E every connect-scope macro is inserted into the envelope macros,
\* replacing the value of a name the envelope already has, and id is the
\* value of `i` in the merged map or `-`.
C25_ConnectMacrosWin ==
    [][(cmd' = "E" /\ FrameStep) =>
         /\ DOMAIN storage'.macros = (DOMAIN storage.macros) \cup (DOMAIN connect_macros)
         /\ \A name \in DOMAIN storage'.macros :
               storage'.macros[name] = IF name \in DOMAIN connect_macros
                                       THEN connect_macros[name]
                                       ELSE storage.macros[name]
         /\ storage'.id = IF <<"i">> \in DOMAIN connect_macros THEN connect_macros[<<"i">>]
                          ELSE IF <<"i">> \in DOMAIN storage.macros THEN storage.macros[<<"i">>]
                          ELSE <<"-">>]_vars

\* both scopes defined `i` (the envelope's D frame is the one that defines `k`)
\* and the connect-scope value became the id
C25_Witness ==
    /\ cmd = "E" /\ client = "classified"
    /\ <<"k">> \in DOMAIN storage.macros
    /\ <<"j">> \in DOMAIN storage.macros
    /\ storage.macros[<<"i">>] = <<"1">>
    /\ storage.id = <<"1">>

\* C26 as stated: after A the connection is in the state of a fresh connection.
C26_AbortEqualsFreshConnection ==
    cmd = "A" => (storage = DefaultStorage /\ connect_macros = EmptyMap)

\* C26 as amended: after A the envelope accumulator is that of a fresh
\* connection and the loop goes on; the connect-scope macros are kept.
C26_AbortRestoresEnvelope ==
    cmd = "A" =>
        /\ storage = DefaultStorage /\ skips = 0
        /\ client = "read" /\ reply = <<>>
        /\ connect_macros = EmptyMap =>
              (nframes = 0 /\ result = NoResult /\ msg = NoResult)

\* an abort on a connection that has connect-scope macros
C26_Witness ==
    /\ cmd = "A" /\ <<"i">> \in DOMAIN connect_macros
    /\ storage = DefaultStorage

(***************************************************************************)
(* The supervisor: daemon() and the signal handlers.                       *)
(*                                                                         *)
(* A connection handed to a worker thread, a child process or the inline   *)
(* call runs process_client, which ends in one of its terminal positions   *)
(* "ok", "err" or "panic" (see Next).  While it runs it is "running" or,   *)
(* inside one of its eprintln! calls, "printing".                          *)
(***************************************************************************)
ClientOutcomes == {"ok", "err", "panic"}
Conns == 1..MaxConns

ForkMode == fork_max > 0
ThreadMode == fork_max = 0 /\ threads_max > 0
InlineMode == fork_max = 0 /\ threads_max = 0

\* the supervisor process is running (neither returned from daemon nor dead)
SupDead == {"config_err", "returned", "panic_underflow", "panic_echild",
            "panic_inline", "panic_unwrap", "abort_signal"}
Alive == sup \notin SupDead

\* the supervisor is blocked in a system call that a signal handler interrupts
Blocked == sup \in {"in_accept", "in_pause"}

\* the supervisor's thread is inside an eprintln! and has stderr borrowed:
\* one of daemon's own (lines 316, 359, 364, 376) or, in inline mode, one of
\* process_client (daemon.rs 213; lib.rs 237, 409-412, 416).  The message of
\* a panic is not written through eprintln! and borrows nothing.
SupPrinting ==
    \/ sup \in {"print_fork_err", "print_inline_err", "print_accept_err", "print_drain"}
    \/ sup = "inline" /\ conn[accepted] = "printing"

\* a worker thread is inside an eprintln! of process_client or inside the
\* one of line 345
WorkerPrinting == {"printing", "report_err"}

\* BackpressureFull with the comparison off by one
BackpressureFull_OffByOne(n, max) == n > max

\* lines 286 and 292: no room for another child / worker
BackpressureFull(n, max) == n >= max

\* line 375: workers are still active
DrainPending(n) == n > 0

\* ConfigError without the opt-in check of cli.rs
ConfigError_NoOptInCheck(fmax, tmax, enabled) == fmax > 0 /\ tmax > 0

\* the daemon command refuses to start: both modes requested (cli.rs 150-152,
\* daemon.rs 273-275), or fork mode requested without the program's opt-in
\* (cli.rs 153-158)
ConfigError(fmax, tmax, enabled) ==
    \/ fmax > 0 /\ tmax > 0
    \/ fmax > 0 /\ ~enabled

DaemonInit ==
    /\ fork_mode_enabled \in BOOLEAN
    /\ fork_max \in 0..MaxCap
    /\ threads_max \in 0..MaxCap
    /\ full_mail_classifier \in BOOLEAN
    /\ FLAG_SHUTDOWN = FALSE
    /\ CHILDREN_CNT = 0
    /\ count = 0
    /\ mutex = "free"
    /\ notified = FALSE
    /\ sup = (IF ConfigError(fork_max, threads_max, fork_mode_enabled)
              THEN "config_err" ELSE "loop")
    /\ interrupted = FALSE
    /\ conn = [c \in Conns |-> "none"]
    /\ accepted = 0
    /\ sigchld_pending = FALSE
    /\ signals = 0
    /\ late = 0

\* ---- top of the loop: backpressure (lines 285-295) ----
\* line 286: one evaluation of the while condition in fork mode
ForkLoad ==
    /\ sup = "loop" /\ ForkMode
    /\ sup' = (IF BackpressureFull(CHILDREN_CNT, fork_max) THEN "pause_call" ELSE "accept_call")
    /\ UNCHANGED <<aside, late, fork_mode_enabled, fork_max, threads_max, FLAG_SHUTDOWN, CHILDREN_CNT, count, mutex,
                   notified, interrupted, conn, accepted, sigchld_pending, signals>>

\* line 287: the supervisor enters pause()
EnterPause ==
    /\ sup = "pause_call"
    /\ sup' = "in_pause"
    /\ interrupted' = FALSE
    /\ UNCHANGED <<aside, late, fork_mode_enabled, fork_max, threads_max, FLAG_SHUTDOWN, CHILDREN_CNT, count, mutex,
                   notified, conn, accepted, sigchld_pending, signals>>

\* pause() returns once a signal handler has run
PauseReturn ==
    /\ sup = "in_pause" /\ interrupted
    /\ sup' = "loop"
    /\ UNCHANGED <<aside, late, fork_mode_enabled, fork_max, threads_max, FLAG_SHUTDOWN, CHILDREN_CNT, count, mutex,
                   notified, interrupted, conn, accepted, sigchld_pending, signals>>

\* line 291: lock.lock()
ThreadLock ==
    /\ sup = "loop" /\ ThreadMode
    /\ mutex = "free"
    /\ mutex' = "sup"
    /\ sup' = "bp_locked"
    /\ UNCHANGED <<aside, late, fork_mode_enabled, fork_max, threads_max, FLAG_SHUTDOWN, CHILDREN_CNT, count,
                   notified, interrupted, conn, accepted, sigchld_pending, signals>>

\* ThreadCheck that keeps the guard when it goes on to accept
ThreadCheck_GuardKept ==
    /\ sup = "bp_locked"
    /\ IF BackpressureFull(count, threads_max)
       THEN sup' = "bp_wait" /\ notified' = FALSE /\ mutex' = "free"
       ELSE sup' = "accept_call" /\ UNCHANGED <<notified, mutex>>
    /\ UNCHANGED <<aside, late, fork_mode_enabled, fork_max, threads_max, FLAG_SHUTDOWN, CHILDREN_CNT, count,
                   interrupted, conn, accepted, sigchld_pending, signals>>

\* lines 292-295: one evaluation of the while condition; cvar.wait releases
\* the mutex, leaving the block drops the guard
ThreadCheck ==
    /\ sup = "bp_locked"
    /\ mutex' = "free"
    /\ IF BackpressureFull(count, threads_max)
       THEN sup' = "bp_wait" /\ notified' = FALSE
       ELSE sup' = "accept_call" /\ UNCHANGED notified
    /\ UNCHANGED <<aside, late, fork_mode_enabled, fork_max, threads_max, FLAG_SHUTDOWN, CHILDREN_CNT, count,
                   interrupted, conn, accepted, sigchld_pending, signals>>

\* cvar.wait returns after a notify_one, with the mutex re-acquired
ThreadWake ==
    /\ sup = "bp_wait" /\ notified
    /\ mutex = "free"
    /\ mutex' = "sup"
    /\ sup' = "bp_locked"
    /\ UNCHANGED <<aside, late, fork_mode_enabled, fork_max, threads_max, FLAG_SHUTDOWN, CHILDREN_CNT, count,
                   notified, interrupted, conn, accepted, sigchld_pending, signals>>

\* cvar.wait may also return spuriously
ThreadWakeSpurious ==
    /\ sup = "bp_wait" /\ ~notified
    /\ mutex = "free"
    /\ mutex' = "sup"
    /\ sup' = "bp_locked"
    /\ UNCHANGED <<aside, late, fork_mode_enabled, fork_max, threads_max, FLAG_SHUTDOWN, CHILDREN_CNT, count,
                   notified, interrupted, conn, accepted, sigchld_pending, signals>>

\* inline mode has no backpressure
InlineLoop ==
    /\ sup = "loop" /\ InlineMode
    /\ sup' = "accept_call"
    /\ UNCHANGED <<aside, late, fork_mode_enabled, fork_max, threads_max, FLAG_SHUTDOWN, CHILDREN_CNT, count, mutex,
                   notified, interrupted, conn, accepted, sigchld_pending, signals>>

\* ---- accept (line 296) ----
EnterAccept ==
    /\ sup = "accept_call"
    /\ sup' = "in_accept"
    /\ interrupted' = FALSE
    /\ UNCHANGED <<aside, late, fork_mode_enabled, fork_max, threads_max, FLAG_SHUTDOWN, CHILDREN_CNT, count, mutex,
                   notified, conn, accepted, sigchld_pending, signals>>

\* line 297: a peer connected
AcceptOk ==
    /\ sup = "in_accept"
    /\ accepted < MaxConns
    /\ accepted' = accepted + 1
    /\ late' = (IF FLAG_SHUTDOWN THEN late + 1 ELSE late)
    /\ IF ForkMode THEN sup' = "fork_call" /\ UNCHANGED conn
       ELSE IF ThreadMode THEN sup' = "inc_lock" /\ UNCHANGED conn
       ELSE sup' = "inline" /\ conn' = [conn EXCEPT ![accepted + 1] = "running"]
    /\ UNCHANGED <<aside, fork_mode_enabled, fork_max, threads_max, FLAG_SHUTDOWN, CHILDREN_CNT, count, mutex,
                   notified, interrupted, sigchld_pending, signals>>

\* line 363: a signal handler ran during accept
AcceptInterrupted ==
    /\ sup = "in_accept" /\ interrupted
    /\ sup' = "check_flag"
    /\ UNCHANGED <<aside, late, fork_mode_enabled, fork_max, threads_max, FLAG_SHUTDOWN, CHILDREN_CNT, count, mutex,
                   notified, interrupted, conn, accepted, sigchld_pending, signals>>

\* line 364: any other accept error; the supervisor starts to print it
AcceptError ==
    /\ sup = "in_accept"
    /\ sup' = "print_accept_err"
    /\ UNCHANGED <<aside, late, fork_mode_enabled, fork_max, threads_max, FLAG_SHUTDOWN, CHILDREN_CNT, count, mutex,
                   notified, interrupted, conn, accepted, sigchld_pending, signals>>

\* ---- fork dispatch (lines 298-317) ----
\* line 299: fork() succeeds; the child runs process_client on the socket
ForkParent ==
    /\ sup = "fork_call"
    /\ conn' = [conn EXCEPT ![accepted] = "running"]
    /\ sup' = "fetch_add"
    /\ UNCHANGED <<aside, late, fork_mode_enabled, fork_max, threads_max, FLAG_SHUTDOWN, CHILDREN_CNT, count, mutex,
                   notified, interrupted, accepted, sigchld_pending, signals>>

\* line 316: fork() fails; the supervisor starts to print the error
ForkFail ==
    /\ sup = "fork_call"
    /\ sup' = "print_fork_err"
    /\ UNCHANGED <<aside, late, fork_mode_enabled, fork_max, threads_max, FLAG_SHUTDOWN, CHILDREN_CNT, count, mutex,
                   notified, interrupted, conn, accepted, sigchld_pending, signals>>

\* line 301
FetchAdd ==
    /\ sup = "fetch_add"
    /\ CHILDREN_CNT' = WrappingAddU16(CHILDREN_CNT, 1)
    /\ sup' = "check_flag"
    /\ UNCHANGED <<aside, late, fork_mode_enabled, fork_max, threads_max, FLAG_SHUTDOWN, count, mutex,
                   notified, interrupted, conn, accepted, sigchld_pending, signals>>

\* line 308: process_client ends in the child, which has dropped its copy of
\* the listening socket (line 304) and holds only the accepted one
ChildReturn(c) ==
    /\ ForkMode /\ conn[c] = "running"
    /\ \E outcome \in ClientOutcomes : conn' = [conn EXCEPT ![c] = outcome]
    /\ UNCHANGED <<aside, late, fork_mode_enabled, fork_max, threads_max, FLAG_SHUTDOWN, CHILDREN_CNT, count, mutex,
                   notified, sup, interrupted, accepted, sigchld_pending, signals>>

\* lines 309-313: exit(0) after Ok, exit(1) after Err; a panic unwinds out of
\* main and ends the process with status 101
ExitStatus(outcome) ==
    IF outcome = "ok" THEN "exit0"
    ELSE IF outcome = "err" THEN "exit1"
    ELSE "exit101"

\* the states of a child process that has exited and not been reaped
ChildExited == {"exit0", "exit1", "exit101"}

\* the child is ended by a signal before it has exited: by a SIGKILL from
\* outside at any point, or by the SIGABRT of its inherited handlerfunc
\* (lines 222-225) when SIGTERM or SIGINT reaches it inside an eprintln! of
\* process_client or inside the one of line 311; the parent gets SIGCHLD
ChildKill(c) ==
    /\ ForkMode /\ conn[c] \in {"running", "printing"} \cup ClientOutcomes
    /\ \/ conn' = [conn EXCEPT ![c] = "killed"]
       \/ /\ conn[c] \in {"printing", "err"}
          /\ conn' = [conn EXCEPT ![c] = "aborted"]
    /\ sigchld_pending' = (Alive \/ sigchld_pending)
    /\ UNCHANGED <<aside, late, fork_mode_enabled, fork_max, threads_max, FLAG_SHUTDOWN, CHILDREN_CNT, count, mutex,
                   notified, sup, interrupted, accepted, signals>>

\* lines 309-313: the child exits; the parent gets SIGCHLD
ChildExit(c) ==
    /\ ForkMode /\ conn[c] \in ClientOutcomes
    /\ conn' = [conn EXCEPT ![c] = ExitStatus(conn[c])]
    /\ sigchld_pending' = (Alive \/ sigchld_pending)
    /\ UNCHANGED <<aside, late, fork_mode_enabled, fork_max, threads_max, FLAG_SHUTDOWN, CHILDREN_CNT, count, mutex,
                   notified, sup, interrupted, accepted, signals>>

\* ---- process_client on its thread or in its child ----
\* process_client enters one of its eprintln! calls (daemon.rs 213; lib.rs
\* 237, 409-412, 416)
ProcessClientPrint(c) ==
    /\ conn[c] = "running" /\ (ForkMode \/ Alive)
    /\ conn' = [conn EXCEPT ![c] = "printing"]
    /\ UNCHANGED <<aside, late, fork_mode_enabled, fork_max, threads_max, FLAG_SHUTDOWN, CHILDREN_CNT, count, mutex,
                   notified, sup, interrupted, accepted, sigchld_pending, signals>>

\* the eprintln! returns and process_client goes on
ProcessClientPrinted(c) ==
    /\ conn[c] = "printing" /\ (ForkMode \/ Alive)
    /\ conn' = [conn EXCEPT ![c] = "running"]
    /\ UNCHANGED <<aside, late, fork_mode_enabled, fork_max, threads_max, FLAG_SHUTDOWN, CHILDREN_CNT, count, mutex,
                   notified, sup, interrupted, accepted, sigchld_pending, signals>>

\* ---- thread dispatch (lines 318-353) ----
\* line 324
IncLock ==
    /\ sup = "inc_lock"
    /\ mutex = "free"
    /\ mutex' = "sup"
    /\ sup' = "inc"
    /\ UNCHANGED <<aside, late, fork_mode_enabled, fork_max, threads_max, FLAG_SHUTDOWN, CHILDREN_CNT, count,
                   notified, interrupted, conn, accepted, sigchld_pending, signals>>

\* lines 325-326: increment, guard dropped
Increment ==
    /\ sup = "inc"
    /\ count' = count + 1
    /\ mutex' = "free"
    /\ sup' = "spawn"
    /\ UNCHANGED <<aside, late, fork_mode_enabled, fork_max, threads_max, FLAG_SHUTDOWN, CHILDREN_CNT,
                   notified, interrupted, conn, accepted, sigchld_pending, signals>>

\* lines 331-334: the classifier Arc is unwrapped and the worker spawned
Spawn ==
    /\ sup = "spawn"
    /\ IF full_mail_classifier
       THEN /\ conn' = [conn EXCEPT ![accepted] = "running"]
            /\ sup' = "check_flag"
       ELSE /\ sup' = "panic_unwrap"
            /\ UNCHANGED conn
    /\ UNCHANGED <<aside, late, fork_mode_enabled, fork_max, threads_max, FLAG_SHUTDOWN, CHILDREN_CNT, count, mutex,
                   notified, interrupted, accepted, sigchld_pending, signals>>

\* line 344: process_client ends in the worker: after Ok the closure goes on
\* to the decrement, after Err it prints first (line 345), a panic unwinds
\* the thread past the decrement
WorkerEnd(w) ==
    /\ ThreadMode /\ Alive /\ conn[w] = "running"
    /\ \E outcome \in ClientOutcomes :
        conn' = [conn EXCEPT ![w] = IF outcome = "panic" THEN "panicked"
                                   ELSE IF outcome = "err" THEN "report_err"
                                   ELSE "finished"]
    /\ UNCHANGED <<aside, late, fork_mode_enabled, fork_max, threads_max, FLAG_SHUTDOWN, CHILDREN_CNT, count, mutex,
                   notified, sup, interrupted, accepted, sigchld_pending, signals>>

\* line 345 has printed and the closure goes on
WorkerReported(w) ==
    /\ ThreadMode /\ Alive /\ conn[w] = "report_err"
    /\ conn' = [conn EXCEPT ![w] = "finished"]
    /\ UNCHANGED <<aside, late, fork_mode_enabled, fork_max, threads_max, FLAG_SHUTDOWN, CHILDREN_CNT, count, mutex,
                   notified, sup, interrupted, accepted, sigchld_pending, signals>>

\* line 350
WorkerLock(w) ==
    /\ ThreadMode /\ Alive /\ conn[w] = "finished"
    /\ mutex = "free"
    /\ mutex' = "worker"
    /\ conn' = [conn EXCEPT ![w] = "locked"]
    /\ UNCHANGED <<aside, late, fork_mode_enabled, fork_max, threads_max, FLAG_SHUTDOWN, CHILDREN_CNT, count,
                   notified, sup, interrupted, accepted, sigchld_pending, signals>>

\* lines 351-353: decrement, notify_one, guard dropped
WorkerDecrement(w) ==
    /\ ThreadMode /\ Alive /\ conn[w] = "locked"
    /\ count' = count - 1
    /\ notified' = (notified \/ sup \in {"bp_wait", "drain_wait"})
    /\ mutex' = "free"
    /\ conn' = [conn EXCEPT ![w] = "done"]
    /\ UNCHANGED <<aside, late, fork_mode_enabled, fork_max, threads_max, FLAG_SHUTDOWN, CHILDREN_CNT,
                   sup, interrupted, accepted, sigchld_pending, signals>>

\* ---- inline dispatch (lines 354-361) ----
\* InlineDone that goes on while process_client is still running
InlineDone_Detached ==
    /\ sup = "inline"
    /\ sup' = "check_flag"
    /\ UNCHANGED <<aside, late, fork_mode_enabled, fork_max, threads_max, FLAG_SHUTDOWN, CHILDREN_CNT, count, mutex,
                   notified, interrupted, conn, accepted, sigchld_pending, signals>>

\* lines 357-360: process_client is called on the supervisor's own thread;
\* Ok falls through to the flag check, Err is printed first (line 359), a
\* panic unwinds daemon()
InlineDone ==
    /\ sup = "inline" /\ conn[accepted] = "running"
    /\ \E outcome \in ClientOutcomes :
        /\ conn' = [conn EXCEPT ![accepted] = "done"]
        /\ sup' = (IF outcome = "panic" THEN "panic_inline"
                   ELSE IF outcome = "err" THEN "print_inline_err"
                   ELSE "check_flag")
    /\ UNCHANGED <<aside, late, fork_mode_enabled, fork_max, threads_max, FLAG_SHUTDOWN, CHILDREN_CNT, count, mutex,
                   notified, interrupted, accepted, sigchld_pending, signals>>

\* the eprintln! of line 316, 359 or 364 returns and the match is left
PrintDone ==
    /\ sup \in {"print_fork_err", "print_inline_err", "print_accept_err"}
    /\ sup' = "check_flag"
    /\ UNCHANGED <<aside, late, fork_mode_enabled, fork_max, threads_max, FLAG_SHUTDOWN, CHILDREN_CNT, count, mutex,
                   notified, interrupted, conn, accepted, sigchld_pending, signals>>

\* ---- end of the loop body (lines 366-368) and the drain (lines 372-382) ----
\* CheckFlag that never breaks out of the loop
CheckFlag_NoBreak ==
    /\ sup = "check_flag"
    /\ sup' = "loop"
    /\ UNCHANGED <<aside, late, fork_mode_enabled, fork_max, threads_max, FLAG_SHUTDOWN, CHILDREN_CNT, count, mutex,
                   notified, interrupted, conn, accepted, sigchld_pending, signals>>

CheckFlag ==
    /\ sup = "check_flag"
    /\ sup' = (IF FLAG_SHUTDOWN
               THEN (IF threads_max > 0 THEN "drain" ELSE "returned")
               ELSE "loop")
    /\ UNCHANGED <<aside, late, fork_mode_enabled, fork_max, threads_max, FLAG_SHUTDOWN, CHILDREN_CNT, count, mutex,
                   notified, interrupted, conn, accepted, sigchld_pending, signals>>

\* line 374
DrainLock ==
    /\ sup = "drain"
    /\ mutex = "free"
    /\ mutex' = "sup"
    /\ sup' = "drain_locked"
    /\ UNCHANGED <<aside, late, fork_mode_enabled, fork_max, threads_max, FLAG_SHUTDOWN, CHILDREN_CNT, count,
                   notified, interrupted, conn, accepted, sigchld_pending, signals>>

\* lines 375-376: one evaluation of the while condition; with workers left
\* the supervisor starts to print, the guard still held; with none, leaving
\* the block drops the guard
DrainCheck ==
    /\ sup = "drain_locked"
    /\ IF DrainPending(count)
       THEN sup' = "print_drain" /\ UNCHANGED mutex
       ELSE sup' = "returned" /\ mutex' = "free"
    /\ UNCHANGED <<aside, late, fork_mode_enabled, fork_max, threads_max, FLAG_SHUTDOWN, CHILDREN_CNT, count,
                   notified, interrupted, conn, accepted, sigchld_pending, signals>>

\* lines 376-377: the eprintln! returns and wait_timeout releases the mutex
DrainWait ==
    /\ sup = "print_drain"
    /\ sup' = "drain_wait"
    /\ mutex' = "free"
    /\ notified' = FALSE
    /\ UNCHANGED <<aside, late, fork_mode_enabled, fork_max, threads_max, FLAG_SHUTDOWN, CHILDREN_CNT, count,
                   interrupted, conn, accepted, sigchld_pending, signals>>

\* wait_timeout returns after a notify_one or after one second
DrainWake ==
    /\ sup = "drain_wait"
    /\ mutex = "free"
    /\ mutex' = "sup"
    /\ sup' = "drain_locked"
    /\ UNCHANGED <<aside, late, fork_mode_enabled, fork_max, threads_max, FLAG_SHUTDOWN, CHILDREN_CNT, count,
                   notified, interrupted, conn, accepted, sigchld_pending, signals>>

\* ---- signal handlers ----
\* handlerfunc (lines 222-225), run for SIGTERM or SIGINT on the supervisor's
\* thread or on the thread of a worker w that has not ended.  Its eprintln!
\* (line 223) borrows stderr: on a thread that is itself inside an eprintln!
\* the borrow fails, the panic cannot leave the extern "C" function and the
\* process aborts before the store of line 224.  The same happens when the
\* other of the two signals arrives while the handler prints (the mask of
\* the handlers is empty).
HandlerFunc ==
    /\ Alive
    /\ signals < MaxSignals
    /\ \/ \E on_main \in BOOLEAN, w \in Conns :
            /\ on_main \/ (ThreadMode /\ conn[w] \in {"running", "finished", "locked"} \cup WorkerPrinting)
            /\ signals' = signals + 1
            /\ IF (on_main /\ SupPrinting) \/ (~on_main /\ conn[w] \in WorkerPrinting)
               THEN /\ sup' = "abort_signal"
                    /\ UNCHANGED <<FLAG_SHUTDOWN, interrupted>>
               ELSE /\ FLAG_SHUTDOWN' = TRUE
                    /\ interrupted' = (interrupted \/ (on_main /\ Blocked))
                    /\ UNCHANGED sup
       \/ /\ signals + 2 <= MaxSignals
          /\ signals' = signals + 2
          /\ sup' = "abort_signal"
          /\ UNCHANGED <<FLAG_SHUTDOWN, interrupted>>
    /\ UNCHANGED <<aside, late, fork_mode_enabled, fork_max, threads_max, CHILDREN_CNT, count, mutex,
                   notified, conn, accepted, sigchld_pending>>

\* a SIGCHLD sent to the supervisor from outside, no child having ended
ExternalSigchld ==
    /\ Alive
    /\ ~sigchld_pending
    /\ sigchld_pending' = TRUE
    /\ UNCHANGED <<aside, late, fork_mode_enabled, fork_max, threads_max, FLAG_SHUTDOWN, CHILDREN_CNT, count, mutex,
                   notified, sup, interrupted, conn, accepted, signals>>

\* handlerfunc_child (lines 227-234), run for a pending SIGCHLD
HandlerFuncChild ==
    /\ Alive
    /\ sigchld_pending
    /\ sigchld_pending' = FALSE
    /\ interrupted' = (interrupted \/ Blocked)
    /\ LET \* the child processes, which only fork mode has: ended and not yet
           \* reaped, and still alive
           zombies == {c \in Conns :
                          ForkMode /\ conn[c] \in ChildExited \cup {"killed", "aborted"}}
           running == {c \in Conns :
                          ForkMode /\ conn[c] \in {"running", "printing"} \cup ClientOutcomes}
       IN  IF zombies # {}
           THEN \* waitpid reaps one of them; only WaitStatus::Exited passes
                \* the pattern of line 228 and reaches the fetch_sub
                \E c \in zombies :
                    /\ conn' = [conn EXCEPT ![c] = "reaped"]
                    /\ IF conn[c] \in ChildExited
                       THEN /\ CHILDREN_CNT' = WrappingSubU16(CHILDREN_CNT, 1)
                            /\ sup' = (IF CHILDREN_CNT = 0 THEN "panic_underflow" ELSE sup)
                       ELSE UNCHANGED <<CHILDREN_CNT, sup>>
           ELSE IF running # {}
           THEN \* waitpid returns StillAlive
                UNCHANGED <<conn, CHILDREN_CNT, sup>>
           ELSE \* no child process (always so in threaded and inline mode):
                \* waitpid fails with ECHILD and unwrap panics
                /\ sup' = "panic_echild"
                /\ UNCHANGED <<conn, CHILDREN_CNT>>
    /\ UNCHANGED <<aside, late, fork_mode_enabled, fork_max, threads_max, FLAG_SHUTDOWN, count, mutex,
                   notified, accepted, signals>>

\* the steps of the supervisor's own thread that need nothing from outside
SupervisorStep ==
    \/ ForkLoad \/ EnterPause \/ PauseReturn
    \/ ThreadLock \/ ThreadCheck \/ ThreadWake
    \/ InlineLoop \/ EnterAccept \/ AcceptInterrupted
    \/ ForkParent \/ FetchAdd
    \/ IncLock \/ Increment \/ Spawn
    \/ PrintDone
    \/ CheckFlag \/ DrainLock \/ DrainCheck \/ DrainWait \/ DrainWake

\* process_client returns or panics
ConnectionEnd ==
    \/ \E c \in Conns : ChildReturn(c)
    \/ \E w \in Conns : WorkerEnd(w)
    \/ InlineDone

\* the steps of the worker threads, the children and the inline connection
\* that need nothing from outside
ConnectionStep ==
    \/ \E c \in Conns : ProcessClientPrinted(c)
    \/ \E c \in Conns : ChildReturn(c)
    \/ \E c \in Conns : ChildExit(c)
    \/ \E w \in Conns : WorkerEnd(w)
    \/ \E w \in Conns : WorkerReported(w)
    \/ \E w \in Conns : WorkerLock(w)
    \/ \E w \in Conns : WorkerDecrement(w)
    \/ InlineDone


(***************************************************************************)
(* Two connections.  The first is the one of the client variables; the     *)
(* second is `peer`, served by another call of process_client with its own *)
(* locals (lines 40-41).  In fork and threaded mode the two calls run side *)
(* by side; in inline mode the second connection waits in the listen       *)
(* backlog until the first call has returned.                              *)
(***************************************************************************)
\* lines 40-41 of the second call; "queued": connected, not yet accepted
PeerIdle ==
    peer = [pos |-> "queued", connect_macros |-> EmptyMap,
            storage |-> DefaultStorage, reply |-> <<>>, nframes |-> 0]

\* lines 296-361: the supervisor accepts the second connection and hands it to
\* a child, a worker or, once the first inline call has returned, to itself
PeerAccept ==
    /\ peer.pos = "queued"
    /\ InlineMode => client \in {"ok", "err"}
    /\ peer' = [peer EXCEPT !.pos = "read"]
    /\ UNCHANGED client_vars

\* the second call can read a frame
PeerReads == peer.pos = "read" /\ peer.nframes < MaxPeerFrames

\* lines 85-100 in the second call
PeerD ==
    /\ PeerReads
    /\ \E f \in DFrames :
        /\ FrameRead(f) /\ f.data[1] = "D"
        /\ peer' = IF Len(f.data) < 2
                   THEN [peer EXCEPT !.pos = "err", !.nframes = @ + 1, !.reply = <<>>]
                   ELSE IF f.data[2] = "C"
                   THEN [peer EXCEPT !.connect_macros = ParseMacros(f.data, 2, @),
                                     !.nframes = @ + 1, !.reply = <<>>]
                   ELSE [peer EXCEPT !.storage.macros = ParseMacros(f.data, 2, @),
                                     !.nframes = @ + 1, !.reply = <<>>]
    /\ UNCHANGED client_vars

\* lines 101-105 in the second call
PeerM ==
    /\ PeerReads
    /\ \E f \in MFrames :
        /\ FrameRead(f) /\ f.data[1] = "M"
        /\ peer' = [peer EXCEPT !.storage.sender = read_zstring_anglestripped(f.data, 1).bytes,
                                !.nframes = @ + 1, !.reply = <<>>]
    /\ UNCHANGED client_vars

\* lines 159-200 in the second call: merge, classify, write the verdict,
\* flush, reset
PeerE ==
    /\ PeerReads
    /\ \E f \in EFrames, parsed \in BOOLEAN, verdict \in Verdicts \cup {"panic"},
          flushed \in BOOLEAN :
        /\ FrameRead(f) /\ f.data[1] = "E"
        /\ LET merged == MergedStorage(peer.storage, peer.connect_macros)
               r == classify_mail(full_mail_classifier, parsed, verdict)
           IN  peer' = IF full_mail_classifier /\ parsed /\ verdict = "panic"
                       THEN [peer EXCEPT !.pos = "panic", !.storage = merged,
                                         !.nframes = @ + 1, !.reply = <<>>]
                       ELSE IF verdict = "panic" THEN peer
                       ELSE IF flushed
                       THEN [peer EXCEPT !.storage = ResetStorage(merged),
                                         !.nframes = @ + 1,
                                         !.reply = Flushed(VerdictFrames(r))]
                       ELSE [peer EXCEPT !.pos = "err", !.storage = merged,
                                         !.nframes = @ + 1, !.reply = <<>>]
        /\ peer' # peer
    /\ UNCHANGED client_vars

\* lines 201-204 in the second call
PeerQ ==
    /\ PeerReads
    /\ \E f \in QFrames :
        /\ FrameRead(f) /\ f.data[1] = "Q"
        /\ peer' = [peer EXCEPT !.pos = "ok", !.nframes = @ + 1, !.reply = <<>>]
    /\ UNCHANGED client_vars

\* lines 209-215 in the second call: todo!()
PeerUnknown ==
    /\ PeerReads
    /\ \E f \in UnknownFrames :
        /\ FrameRead(f)
        /\ f.data[1] \notin {"O", "D", "M", "R", "L", "N", "B", "E", "Q", "A"}
        /\ peer' = [peer EXCEPT !.pos = "panic", !.nframes = @ + 1, !.reply = <<>>]
    /\ UNCHANGED client_vars

\* what a step of the first call does to the second connection: nothing,
\* unless the step is a panic in inline mode, where process_client runs on the
\* supervisor's own thread (line 357): the panic unwinds daemon(), the process
\* ends, and a connection still waiting in the backlog is closed unserved.  A
\* panic in a worker thread or in a child ends that thread or child only.
PanicReach ==
    peer' = IF InlineMode /\ client' = "panic" /\ peer.pos = "queued"
            THEN [peer EXCEPT !.pos = "closed"]
            ELSE peer

(***************************************************************************)
(* Properties of the supervisor (specifications DaemonSpec, FairDaemonSpec)*)
(***************************************************************************)
\* worker threads whose closure has not yet decremented the counter
LiveWorkers == {w \in Conns : conn[w] \in {"running", "printing", "report_err", "finished", "locked"}}

\* C14: a frame whose length prefix is above 69632 ends process_client with an
\* error, with no reply and the accumulator untouched, before any command is
\* dispatched; a frame of exactly 69632 bytes is read and dispatched (here a Q
\* frame, which ends the loop cleanly); and once the connection has ended on
\* the frame that was too long, no step ends the supervisor by a panic or an
\* abort: only that connection ends.
C14_FrameLengthLimit ==
    [][/\ FrameStep =>
          /\ len' > MaxFrameLen =>
                /\ client' = "err" /\ cmd' = NoCmd /\ reply' = <<>>
                /\ storage' = storage /\ connect_macros' = connect_macros
          /\ len' = MaxFrameLen => (cmd' = "Q" /\ client' = "ok")
       /\ (len > MaxFrameLen /\ client = "err") => sup' \notin SupDead \ {"returned"}
      ]_vars

\* C5: in threaded mode the counter of active workers never exceeds threads_max.
C5_ThreadCap == ThreadMode => count <= threads_max

\* the cap is reached and the supervisor waits on the condvar
C5_Witness ==
    /\ ThreadMode /\ threads_max = MaxCap /\ count = threads_max
    /\ sup = "bp_wait"
    /\ Cardinality(LiveWorkers) = MaxCap

\* C6: in fork mode the children counter never exceeds fork_max.
C6_ForkCap == ForkMode => CHILDREN_CNT <= fork_max

\* C7: in threaded mode, while the process has not been ended by a panic or an
\* abort of the supervisor, the counter equals the number of workers that have
\* not ended (one more between the increment and the spawn), however a worker
\* ends.
C7_CounterTracksWorkers ==
    (ThreadMode /\ sup \notin SupDead \ {"returned"}) =>
        count = Cardinality(LiveWorkers) + (IF sup = "spawn" THEN 1 ELSE 0)

\* C8: the SIGCHLD handler never finds the children counter at 0 when it reaps
\* an exited child: the `children underflow` panic is unreachable.
C8_NoUnderflow == sup # "panic_underflow"

\* C9: once the shutdown flag is set, accept returns no further connection.
C9_NoAcceptAfterShutdown == [][FLAG_SHUTDOWN => accepted' = accepted]_vars

\* C10: once SIGTERM or SIGINT has been handled, the supervisor eventually
\* leaves the accept loop and daemon returns.  A supervisor killed by a panic
\* is counted with the returned one, so that the property fails only when the
\* supervisor stays in the loop (or in the drain) for ever.
C10_ShutdownReturns == FLAG_SHUTDOWN ~> (sup \in SupDead)

\* C11: in threaded mode daemon returns only when the counter is 0, and the
\* supervisor process ends after a shutdown signal, by returning or otherwise,
\* only when no worker is still processing its connection or about to decrement.
C11_ReturnsOnlyWhenDrained ==
    (ThreadMode /\ sup \in {"returned", "abort_signal"}) => (count = 0 /\ LiveWorkers = {})

\* the supervisor sits in the fork-mode backpressure wait
InForkWait == ForkMode /\ sup \in {"pause_call", "in_pause"}

\* C12: when the supervisor is in the fork-mode wait and the handler has reaped
\* a child so that the counter is below fork_max, the supervisor eventually
\* leaves the wait and goes on to accept (a supervisor killed by a panic is
\* counted with it, so only a supervisor stuck in the wait fails the property).
C12_ReapWakesSupervisor ==
    (InForkWait /\ CHILDREN_CNT < fork_max) ~> (sup = "accept_call" \/ sup \in SupDead)

\* C13: a connection that ends in a panic of process_client (the default arm's
\* todo!() on an unknown command byte) ends alone: the supervisor is not taken
\* down with it, and once no worker is left the counter is back at 0.
C13_UnknownCommandEndsConnectionOnly ==
    /\ sup # "panic_inline"
    /\ (ThreadMode /\ LiveWorkers = {} /\ sup \notin {"spawn", "panic_unwrap"}) => count = 0

\* C17: a missing classifier stops no mode from dispatching a connection: the
\* supervisor never dies on the unwrap of config.full_mail_classifier.
C17_NoClassifierDispatches == ~full_mail_classifier => sup # "panic_unwrap"

\* C28: no connection is accepted under an invalid mode configuration: in
\* every state with an accepted connection at most one of fork_max and
\* threads_max is positive and fork mode has the opt-in; a refused
\* configuration never leaves the startup error.
C28_NoAcceptUnderInvalidConfig ==
    /\ accepted > 0 =>
        /\ ~(fork_max > 0 /\ threads_max > 0)
        /\ fork_max > 0 => fork_mode_enabled
    /\ ((fork_max > 0 /\ threads_max > 0) \/ (fork_max > 0 /\ ~fork_mode_enabled)) =>
        (sup = "config_err" /\ accepted = 0)

\* a connection accepted and forked for in fork mode with the opt-in
C28_Witness ==
    /\ accepted > 0 /\ fork_max > 0 /\ threads_max = 0 /\ fork_mode_enabled
    /\ conn[1] = "running"

\* the connections whose process_client call has not ended
Processing == {c \in Conns : conn[c] \in {"running", "printing"}}

\* C29: in inline mode at most one connection is being processed at any time,
\* and none while the supervisor is on its way into accept or inside it.
C29_InlineOneAtATime ==
    InlineMode =>
        /\ Cardinality(Processing) <= 1
        /\ sup \in {"loop", "accept_call", "in_accept", "check_flag"} => Processing = {}

\* the second connection is processed after the first one has ended
C29_Witness ==
    /\ InlineMode /\ accepted = 2
    /\ conn[1] = "done" /\ conn[2] = "running" /\ sup = "inline"

\* C30: a fork-mode child that is not killed from outside exits with status
\* 0 when process_client returned Ok and with status 1 when it returned Err,
\* an exited child does nothing but get reaped, and a connection is accepted
\* only by the supervisor inside accept(): no step of a child changes
\* `accepted` or the supervisor's position.
C30_ChildExitsWithStatus ==
    [][\A c \in Conns :
        /\ (conn[c] = "ok" /\ conn'[c] # conn[c]) => conn'[c] \in {"exit0", "killed"}
        /\ (conn[c] = "err" /\ conn'[c] # conn[c]) => conn'[c] \in {"exit1", "killed"}
        /\ (conn[c] \in ChildExited /\ conn'[c] # conn[c]) => conn'[c] = "reaped"
        /\ (ForkMode /\ conn[c] \in {"running", "printing"} \cup ClientOutcomes /\ conn'[c] # conn[c]) =>
              (accepted' = accepted /\ sup' = sup)
        /\ accepted' # accepted => (sup = "in_accept" /\ accepted' = accepted + 1)
    ]_vars

\* the stream cut into length-prefixed frames, as read_u32_be and read_bytes
\* cut it: the payloads in order, and what is left when the stream ends
\* inside a frame
RECURSIVE DecodeFrames(_)
DecodeFrames(bytes) ==
    IF bytes = <<>> THEN [payloads |-> <<>>, left |-> <<>>]
    ELSE IF Len(bytes) < 4 \/ Len(bytes) < 4 + FromBeBytes(SubSeq(bytes, 1, 4))
    THEN [payloads |-> <<>>, left |-> bytes]
    ELSE LET n == FromBeBytes(SubSeq(bytes, 1, 4))
             tail == DecodeFrames(SubSeq(bytes, 5 + n, Len(bytes)))
         IN  [payloads |-> <<SubSeq(bytes, 5, 4 + n)>> \o tail.payloads,
              left |-> tail.left]

\* the length a reply has by its command code
ReplyLength(payload) ==
    CASE payload[1] \in {"a", "r", "c", "s"} -> 1
      [] payload[1] = "q" -> 8
      [] payload[1] = "O" -> 13

\* C33: every reply frame is well formed: the bytes on the wire decode, as
\* length-prefixed frames, to exactly the payloads written, in order and with
\* nothing left over, and every payload has the length of its kind (1, 8, 13),
\* also when the scratch buffer still holds a longer earlier reply.
C33_RepliesWellFormed ==
    /\ DecodeFrames(wire) = [payloads |-> sent, left |-> <<>>]
    /\ \A i \in 1..Len(sent) : Len(sent[i]) = ReplyLength(sent[i])

\* an accept written after an option reply and a quarantine frame, with the
\* 13 bytes of the option reply's time still in the scratch buffer
C33_Witness ==
    /\ Len(sent) = 3
    /\ sent[1][1] = "O" /\ sent[2][1] = "q" /\ sent[3] = <<"a">>
    /\ Len(writer.buf) = 13 /\ writer.pos = 1

\* the field that a cursor over `data` holds at its start: the bytes before
\* the first NUL
FieldOf(data) ==
    LET hits == {i \in 1..Len(data) : data[i] = NUL}
    IN  IF hits = {} THEN data ELSE SubSeq(data, 1, Len(data) - 1)

\* C34: read_zstring_anglestripped takes off one leading `<` and one trailing
\* `>` iff the field has at least two bytes, starts with `<` and ends with
\* `>`, and returns any other field as it is; the result of a stripped field
\* is the field without its first and last byte, whatever brackets remain.
C34_AngleStrip ==
    call.fn = "read_zstring_anglestripped" /\ call.done =>
        LET field == FieldOf(call.arg)
            n == Len(field)
            bracketed == n >= 2 /\ field[1] = "<" /\ field[n] = ">"
        IN  /\ bracketed => call.out = [i \in 1..(n - 2) |-> field[i + 1]]
            /\ ~bracketed => call.out = field
            /\ field = <<"<", "x", ">">> => call.out = <<"x">>
            /\ field = <<"x">> => call.out = <<"x">>
            /\ field = <<"<">> => call.out = <<"<">>
            /\ field = <<>> => call.out = <<>>
            /\ field = <<"<", "x">> => call.out = <<"<", "x">>
            /\ field = <<"x", ">">> => call.out = <<"x", ">">>

\* C35: get_only_recipient returns the recipient of an envelope with exactly
\* one recipient, and the empty string for none and for two or more.
C35_OnlyRecipient ==
    call.fn = "get_only_recipient" /\ call.done =>
        /\ Len(call.arg) = 1 => call.out = call.arg[1]
        /\ Len(call.arg) # 1 => call.out = <<>>

\* two recipients give the empty string
C35_Witness ==
    /\ call.fn = "get_only_recipient" /\ call.done
    /\ call.arg = << <<"c">>, <<"d">> >> /\ call.out = <<>>

\* the blanks among the bytes of the files explored
Blanks == {" ", "\t", CR}

\* the entry a line of a file stands for: the text before its first `#` from
\* the first to the last byte that is not a blank; none when there is no such byte
EntryOf(line) ==
    LET hashes == {i \in 1..Len(line) : line[i] = "#"}
        stop == IF hashes = {} THEN Len(line) + 1
                ELSE CHOOSE i \in hashes : \A j \in hashes : i <= j
        solid == {i \in 1..(stop - 1) : line[i] \notin Blanks}
    IN  IF solid = {} THEN <<>>
        ELSE LET first == CHOOSE i \in solid : \A j \in solid : i <= j
                 last == CHOOSE i \in solid : \A j \in solid : j <= i
             IN  << [k \in 1..(last - first + 1) |-> line[first + k - 1]] >>

\* the lines of a file: the stretches between its LFs, the last one only when
\* it is not empty
LinesOf(content) ==
    LET cuts == {0} \cup {i \in 1..Len(content) : content[i] = LF} \cup {Len(content) + 1}
        starts == {c \in cuts : c <= Len(content) /\ (c < Len(content) \/ c = 0)
                                  /\ (c = 0 => content # <<>>)}
        NextCut(c) == CHOOSE d \in cuts : d > c /\ \A e \in cuts : e > c => d <= e
        Nth(k) == CHOOSE c \in starts : Cardinality({d \in starts : d < c}) = k - 1
    IN  [k \in 1..Cardinality(starts) |->
            [i \in 1..(NextCut(Nth(k)) - Nth(k) - 1) |-> content[Nth(k) + i]]]

\* the entries of the lines, in order
RECURSIVE EntriesOf(_)
EntriesOf(lines) ==
    IF lines = <<>> THEN <<>> ELSE EntryOf(Head(lines)) \o EntriesOf(Tail(lines))

\* C36: read_array returns, in file order, the entries of the lines that have
\* one, so blank and comment-only lines give none and an inline comment is cut
\* off; it returns them for every file that exists and is UTF-8 and for no
\* other; array_contains is true iff the needle is one of the entries, whole.
C36_ReadArray ==
    /\ call.fn = "read_array" /\ call.done =>
        /\ call.out.ok <=> (call.arg.exists /\ \A i \in 1..Len(call.arg.content) :
                                                  call.arg.content[i] # "FF")
        /\ call.out.ok => call.out.val = EntriesOf(LinesOf(call.arg.content))
    /\ call.fn = "array_contains" /\ call.done =>
        (call.out <=> \E i \in 1..Len(call.arg.haystack) :
                          call.arg.haystack[i] = call.arg.needle)

\* a blank line, then an entry after a TAB and before an inline comment
C36_Witness ==
    /\ call.fn = "read_array" /\ call.done
    /\ call.arg = [exists |-> TRUE, content |-> <<LF, "\t", "a", "#">>]
    /\ call.out = [ok |-> TRUE, val |-> << <<"a">> >>]

\* C32: the classifier is called once for an E frame whose message parsed
\* (with a classifier configured) and not at all for any other E frame or any
\* other command; the call gets the accumulator as the E arm has merged it,
\* nothing has been written for that E when it is made, and writing the verdict
\* makes no further call.
C32_ClassifierOncePerE ==
    [][/\ (cmd' = "E" /\ FrameStep) =>
            /\ seen' = (IF full_mail_classifier /\ msg' = "some"
                        THEN <<MergedStorage(storage, connect_macros)>>
                        ELSE <<>>)
            /\ Len(seen') <= 1
            /\ reply' = <<>>
       /\ client = "classified" => seen' = seen
       /\ cmd' # "E" => seen' = <<>>
    ]_vars

\* the classifier has been called with an envelope of two recipients and the
\* verdict is not yet written
C32_Witness ==
    /\ client = "classified" /\ cmd = "E" /\ reply = <<>>
    /\ seen = <<storage>> /\ Len(storage.recipients) = 2

\* the map m with the pairs of `carried` added or overwritten
Overwritten(m, carried) ==
    [k \in DOMAIN m \cup DOMAIN carried |->
        IF k \in DOMAIN carried THEN carried[k] ELSE m[k]]

\* the macros that the D frames with phase letter C carry
CarriedByConnectFrames ==
    { (<<"j">> :> <<"x">>) @@ (<<"i">> :> <<"1">>), (<<"i">> :> <<"3">>) }

\* C40: connect-scope macros live for the whole connection: only a D frame
\* changes them, and then by adding or overwriting the names the frame carries;
\* A and E leave them as they are; at every E a connect-scope `i` becomes the
\* id of the message; the envelope-scope macros are empty after A and after
\* the reset that ends E.
C40_ConnectMacrosPersist ==
    [][/\ cmd' # "D" => connect_macros' = connect_macros
       /\ (cmd' = "D" /\ FrameStep) =>
            \/ connect_macros' = connect_macros
            \/ /\ storage' = storage
               /\ \E carried \in CarriedByConnectFrames :
                    connect_macros' = Overwritten(connect_macros, carried)
       /\ (cmd' = "E" /\ FrameStep /\ <<"i">> \in DOMAIN connect_macros) =>
            storage'.id = connect_macros[<<"i">>]
       /\ cmd' = "A" => storage'.macros = EmptyMap
       /\ (client = "classified" /\ client' = "read") => storage'.macros = EmptyMap
    ]_vars

\* the first frame after a reset is an E, and the message gets the id that the
\* second of two D C frames gave `i` before the reset, with `j` of the first
\* still there
C40_Witness ==
    /\ cmd = "E" /\ client = "classified" /\ nframes = 1
    /\ connect_macros = (<<"j">> :> <<"x">>) @@ (<<"i">> :> <<"3">>)
    /\ storage.id = <<"3">>

\* accept() has failed: the supervisor leaves accept with no connection, and
\* not through a signal handler's panic
AcceptFailed ==
    /\ sup = "in_accept" /\ sup' # sup
    /\ accepted' = accepted /\ sigchld_pending' = sigchld_pending

\* fork() has failed: the supervisor leaves the fork call with no child
ForkFailed ==
    /\ sup = "fork_call" /\ sup' # sup
    /\ conn' = conn /\ sigchld_pending' = sigchld_pending

\* C31: a failed accept and a failed fork leave the supervisor running and the
\* counters, the connections and the number of accepted connections as they
\* were, and lead, through the print of the error, to the shutdown-flag check;
\* from there, with the flag not set, the supervisor goes back to the top of
\* the loop.
C31_FailuresKeepLooping ==
    [][/\ (AcceptFailed \/ ForkFailed) =>
            /\ sup' \in {"check_flag", "print_accept_err", "print_fork_err"}
            /\ CHILDREN_CNT' = CHILDREN_CNT /\ count' = count
            /\ conn' = conn /\ accepted' = accepted
       /\ (sup \in {"print_accept_err", "print_fork_err"} /\ sup' # sup) =>
            /\ sup' = "check_flag"
            /\ CHILDREN_CNT' = CHILDREN_CNT /\ count' = count
            /\ conn' = conn /\ accepted' = accepted
       /\ (sup = "check_flag" /\ sup' # sup /\ ~FLAG_SHUTDOWN
              /\ sigchld_pending' = sigchld_pending) => sup' = "loop"
    ]_vars

\* a child process forked for c exists and has not exited
ChildAlive(c) == conn[c] \in {"running", "printing"} \cup ClientOutcomes

\* C37: in fork mode, once every forked child has exited and no SIGCHLD is
\* pending, the children counter is 0.
C37_CounterTracksChildren ==
    (/\ ForkMode /\ Alive
     /\ sup \notin {"fork_call", "fetch_add"}
     /\ ~sigchld_pending
     /\ \A c \in Conns : ~ChildAlive(c)) => CHILDREN_CNT = 0

\* C38: in threaded mode the supervisor holds the counter mutex only between
\* taking it and the next evaluation of a wait condition or the increment,
\* never while blocked in accept, in a condvar wait or while spawning; whoever
\* holds the mutex can release it without waiting for anyone, and a worker
\* that has finished can take the mutex as soon as it is free.
C38_MutexNotHeldWhileBlocked ==
    (ThreadMode /\ Alive) =>
        /\ mutex = "sup" <=> sup \in {"bp_locked", "inc", "drain_locked", "print_drain"}
        /\ mutex = "sup" => ENABLED (ThreadCheck \/ Increment \/ DrainCheck \/ DrainWait)
        /\ \A w \in Conns :
            /\ conn[w] = "locked" => (mutex = "worker" /\ ENABLED WorkerDecrement(w))
            /\ (conn[w] = "finished" /\ mutex = "free") => ENABLED WorkerLock(w)

\* a worker holds the mutex for its decrement while the supervisor is blocked
\* in accept
C38_Witness ==
    /\ ThreadMode /\ sup = "in_accept"
    /\ mutex = "worker" /\ conn[1] = "locked"

\* C39: at most one connection is accepted after the shutdown flag was set.
C39_AtMostOneLateAccept == late <= 1

\* daemon has returned after accepting one connection with the flag set
C39_Witness == late = 1 /\ sup = "returned"

\* C27: no cross-connection state: no step of one connection's process_client
\* call changes anything of the other connection, be it its accumulator, its
\* replies or its being served, in any mode and any interleaving.
C27_NoCrossConnectionState ==
    [][~(client_vars' # client_vars /\ peer' # peer)]_vars

(***************************************************************************)
(* Specifications.                                                         *)
(***************************************************************************)
\* the state of the part that a specification leaves alone
ClientIdle ==
    /\ truncate = UsizeMax
    /\ overflow_checks = FALSE
    /\ client = "read"
    /\ connect_macros = EmptyMap
    /\ storage = DefaultStorage
    /\ len = NoLen
    /\ cmd = NoCmd
    /\ msg = NoResult
    /\ result = NoResult
    /\ seen = <<>>
    /\ reply = <<>>
    /\ skips = 0
    /\ nframes = 0

DaemonIdle ==
    /\ fork_mode_enabled = FALSE
    /\ fork_max = 0
    /\ threads_max = 0
    /\ FLAG_SHUTDOWN = FALSE
    /\ CHILDREN_CNT = 0
    /\ count = 0
    /\ mutex = "free"
    /\ notified = FALSE
    /\ sup = "loop"
    /\ interrupted = FALSE
    /\ conn = [c \in Conns |-> "none"]
    /\ accepted = 0
    /\ sigchld_pending = FALSE
    /\ signals = 0
    /\ late = 0

\* one connection served by process_client
Init == ClientInit /\ DaemonIdle /\ PeerIdle /\ WriterIdle /\ CallIdle
Next ==
    \/ RecvError /\ UNCHANGED <<daemon_vars, aside>>
    \/ RecvEof /\ UNCHANGED <<daemon_vars, aside>>
    \/ CmdO /\ UNCHANGED <<daemon_vars, aside>>
    \/ CmdD /\ UNCHANGED <<daemon_vars, aside>>
    \/ CmdM /\ UNCHANGED <<daemon_vars, aside>>
    \/ CmdR /\ UNCHANGED <<daemon_vars, aside>>
    \/ CmdL /\ UNCHANGED <<daemon_vars, aside>>
    \/ CmdN /\ UNCHANGED <<daemon_vars, aside>>
    \/ CmdB /\ UNCHANGED <<daemon_vars, aside>>
    \/ CmdE /\ UNCHANGED <<daemon_vars, aside>>
    \/ ReplyE /\ UNCHANGED <<daemon_vars, aside>>
    \/ CmdQ /\ UNCHANGED <<daemon_vars, aside>>
    \/ CmdA /\ UNCHANGED <<daemon_vars, aside>>
    \/ CmdUnknown /\ UNCHANGED <<daemon_vars, aside>>
Spec == Init /\ [][Next]_vars

\* one connection that sends macros, ends and aborts messages: the 'D', 'E'
\* and 'A' arms with a second D frame of the connect phase
MacroNext ==
    \/ CmdD /\ UNCHANGED <<daemon_vars, aside>>
    \/ CmdDLater /\ UNCHANGED <<daemon_vars, aside>>
    \/ CmdE /\ UNCHANGED <<daemon_vars, aside>>
    \/ ReplyE /\ UNCHANGED <<daemon_vars, aside>>
    \/ CmdA /\ UNCHANGED <<daemon_vars, aside>>
MacroSpec == Init /\ [][MacroNext]_vars

\* the write path of one connection: replies in any order
WriterNext ==
    \/ ReplyOption
    \/ ReplyContinue
    \/ ReplySkip
    \/ ReplyAccept
    \/ ReplyReject
    \/ ReplyQuarantine
WriterSpec == Init /\ [][WriterNext]_vars

\* the library functions, each called once on an input of bounded length
CallInit == /\ ClientIdle /\ full_mail_classifier = FALSE /\ DaemonIdle /\ PeerIdle
            /\ WriterIdle /\ call \in Calls
CallNext ==
    \/ CallAnglestripped
    \/ CallOnlyRecipient
    \/ CallReadArray
    \/ CallArrayContains
CallSpec == CallInit /\ [][CallNext]_vars

\* two connections under one supervisor in each of the three modes, with room
\* for both under the cap
PairInit ==
    /\ ClientIdle /\ PeerIdle /\ WriterIdle /\ CallIdle
    /\ full_mail_classifier = TRUE
    /\ \E mode \in {"inline", "fork", "threads"} :
        /\ fork_max = (IF mode = "fork" THEN MaxCap ELSE 0)
        /\ threads_max = (IF mode = "threads" THEN MaxCap ELSE 0)
        /\ fork_mode_enabled = (mode = "fork")
    /\ FLAG_SHUTDOWN = FALSE
    /\ CHILDREN_CNT = 0
    /\ count = 0
    /\ mutex = "free"
    /\ notified = FALSE
    /\ sup = "loop"
    /\ interrupted = FALSE
    /\ conn = [c \in Conns |-> "none"]
    /\ accepted = 0
    /\ sigchld_pending = FALSE
    /\ signals = 0
    /\ late = 0
PairNext ==
    \/ CmdUnknown /\ PanicReach /\ UNCHANGED <<daemon_vars, writer, wire, sent, call>>
    \/ CmdD /\ PanicReach /\ UNCHANGED <<daemon_vars, writer, wire, sent, call>>
    \/ CmdM /\ PanicReach /\ UNCHANGED <<daemon_vars, writer, wire, sent, call>>
    \/ CmdE /\ PanicReach /\ UNCHANGED <<daemon_vars, writer, wire, sent, call>>
    \/ ReplyE /\ PanicReach /\ UNCHANGED <<daemon_vars, writer, wire, sent, call>>
    \/ CmdQ /\ PanicReach /\ UNCHANGED <<daemon_vars, writer, wire, sent, call>>
    \/ PeerAccept /\ UNCHANGED <<daemon_vars, writer, wire, sent, call>>
    \/ PeerD /\ UNCHANGED <<daemon_vars, writer, wire, sent, call>>
    \/ PeerM /\ UNCHANGED <<daemon_vars, writer, wire, sent, call>>
    \/ PeerE /\ UNCHANGED <<daemon_vars, writer, wire, sent, call>>
    \/ PeerQ /\ UNCHANGED <<daemon_vars, writer, wire, sent, call>>
    \/ PeerUnknown /\ UNCHANGED <<daemon_vars, writer, wire, sent, call>>
PairSpec == PairInit /\ [][PairNext]_vars

\* the state in which daemon() is entered, no connection accepted yet
DInit == DaemonInit /\ ClientIdle /\ PeerIdle /\ WriterIdle /\ CallIdle

\* the supervisor and its first connection, whose process_client call is the
\* one of the client variables: the peer sends one frame, a Q frame of 1,
\* 69632 or 69633 bytes or a frame that fails to arrive whole, and the
\* connection ends as that call ends; no second peer, no failure of accept or
\* fork, no signal from outside
LimitNext ==
    \/ ForkLoad /\ UNCHANGED client_vars
    \/ EnterPause /\ UNCHANGED client_vars
    \/ PauseReturn /\ UNCHANGED client_vars
    \/ ThreadLock /\ UNCHANGED client_vars
    \/ ThreadCheck /\ UNCHANGED client_vars
    \/ ThreadWake /\ UNCHANGED client_vars
    \/ ThreadWakeSpurious /\ UNCHANGED client_vars
    \/ InlineLoop /\ UNCHANGED client_vars
    \/ EnterAccept /\ UNCHANGED client_vars
    \/ accepted = 0 /\ AcceptOk /\ UNCHANGED client_vars
    \/ AcceptInterrupted /\ UNCHANGED client_vars
    \/ ForkParent /\ UNCHANGED client_vars
    \/ FetchAdd /\ UNCHANGED client_vars
    \/ IncLock /\ UNCHANGED client_vars
    \/ Increment /\ UNCHANGED client_vars
    \/ Spawn /\ UNCHANGED client_vars
    \/ conn[1] = "running" /\ RecvError /\ UNCHANGED <<daemon_vars, aside>>
    \/ conn[1] = "running" /\ CmdQ /\ UNCHANGED <<daemon_vars, aside>>
    \/ ChildReturn(1) /\ conn'[1] = client /\ UNCHANGED client_vars
    \/ ChildExit(1) /\ UNCHANGED client_vars
    \/ client \in {"ok", "err"} /\ WorkerEnd(1)
          /\ conn'[1] = (IF client = "err" THEN "report_err" ELSE "finished")
          /\ UNCHANGED client_vars
    \/ WorkerReported(1) /\ UNCHANGED client_vars
    \/ WorkerLock(1) /\ UNCHANGED client_vars
    \/ WorkerDecrement(1) /\ UNCHANGED client_vars
    \/ client \in {"ok", "err"} /\ InlineDone
          /\ sup' = (IF client = "err" THEN "print_inline_err" ELSE "check_flag")
          /\ UNCHANGED client_vars
    \/ PrintDone /\ UNCHANGED client_vars
    \/ CheckFlag /\ UNCHANGED client_vars
    \/ HandlerFuncChild /\ UNCHANGED client_vars
LimitSpec == DInit /\ [][LimitNext]_vars

\* the supervisor
DNext ==
    \/ ForkLoad /\ UNCHANGED client_vars
    \/ EnterPause /\ UNCHANGED client_vars
    \/ PauseReturn /\ UNCHANGED client_vars
    \/ ThreadLock /\ UNCHANGED client_vars
    \/ ThreadCheck /\ UNCHANGED client_vars
    \/ ThreadWake /\ UNCHANGED client_vars
    \/ ThreadWakeSpurious /\ UNCHANGED client_vars
    \/ InlineLoop /\ UNCHANGED client_vars
    \/ EnterAccept /\ UNCHANGED client_vars
    \/ AcceptOk /\ UNCHANGED client_vars
    \/ AcceptInterrupted /\ UNCHANGED client_vars
    \/ AcceptError /\ UNCHANGED client_vars
    \/ ForkParent /\ UNCHANGED client_vars
    \/ ForkFail /\ UNCHANGED client_vars
    \/ FetchAdd /\ UNCHANGED client_vars
    \/ (\E c \in Conns : ChildReturn(c)) /\ UNCHANGED client_vars
    \/ (\E c \in Conns : ChildExit(c)) /\ UNCHANGED client_vars
    \/ (\E c \in Conns : ChildKill(c)) /\ UNCHANGED client_vars
    \/ (\E c \in Conns : ProcessClientPrint(c)) /\ UNCHANGED client_vars
    \/ (\E c \in Conns : ProcessClientPrinted(c)) /\ UNCHANGED client_vars
    \/ IncLock /\ UNCHANGED client_vars
    \/ Increment /\ UNCHANGED client_vars
    \/ Spawn /\ UNCHANGED client_vars
    \/ (\E w \in Conns : WorkerEnd(w)) /\ UNCHANGED client_vars
    \/ (\E w \in Conns : WorkerReported(w)) /\ UNCHANGED client_vars
    \/ (\E w \in Conns : WorkerLock(w)) /\ UNCHANGED client_vars
    \/ (\E w \in Conns : WorkerDecrement(w)) /\ UNCHANGED client_vars
    \/ InlineDone /\ UNCHANGED client_vars
    \/ PrintDone /\ UNCHANGED client_vars
    \/ CheckFlag /\ UNCHANGED client_vars
    \/ DrainLock /\ UNCHANGED client_vars
    \/ DrainCheck /\ UNCHANGED client_vars
    \/ DrainWait /\ UNCHANGED client_vars
    \/ DrainWake /\ UNCHANGED client_vars
    \/ HandlerFunc /\ UNCHANGED client_vars
    \/ ExternalSigchld /\ UNCHANGED client_vars
    \/ HandlerFuncChild /\ UNCHANGED client_vars
DaemonSpec == DInit /\ [][DNext]_vars

\* the supervisor under the scheduling the code can rely on: the supervisor
\* thread, the workers and the children keep running, every connection in
\* flight ends however often it prints, pending SIGCHLDs are delivered;
\* peers, signals from outside and failures are not obliged to happen
FairDaemonSpec ==
    /\ DInit /\ [][DNext]_vars
    /\ WF_vars(SupervisorStep /\ UNCHANGED client_vars)
    /\ WF_vars(ConnectionStep /\ UNCHANGED client_vars)
    /\ SF_vars(ConnectionEnd /\ UNCHANGED client_vars)
    /\ WF_vars(HandlerFuncChild /\ UNCHANGED client_vars)

====
